---- MODULE Spec2Model ----
(***************************************************************************)
(* Model of the proxy plugin host (src/src/main.rs) and of the relay       *)
(* engine of the k8s_native_port_forward plugin                            *)
(* (src/plugins/k8s_native_port_forward/src/lib.rs).                       *)
(*                                                                         *)
(* Spec     : one run of the host's main(): discovery, argument parsing,   *)
(*            --list-plugins, dispatch, and the destructors run when       *)
(*            main() returns or unwinds.  The inputs are the plugin        *)
(*            directory, the command line and whether clap's debug         *)
(*            assertions are compiled in.  Using a module after it was     *)
(*            unloaded is undefined behaviour: the model lets it either    *)
(*            go on or crash the process.                                  *)
(* ConnSpec : one relayed connection (handle_native_connection): the       *)
(*            attach, then the two copy loops raced by select!, each       *)
(*            reading a chunk, logging it through the classifier and       *)
(*            writing it to the peer.                                      *)
(* RelaySpec: one run of the relay capability (run, start_port_forward):   *)
(*            config loading, command-line overrides, pod resolution, the  *)
(*            listener, the accept loop with its spawned connection tasks  *)
(*            and the Ctrl+C handler.  RelayLiveSpec adds the fairness of  *)
(*            the handler thread.                                          *)
(* FwdSpec  : one run of the k8s_port_forward plugin                       *)
(*            (src/plugins/k8s_port_forward/src/lib.rs): config loading,   *)
(*            the --name filter, the kubectl child and the interrupts.     *)
(***************************************************************************)
EXTENDS Integers, Sequences, FiniteSets, TLC

(***************************************************************************)
(* Bounds of the model.                                                    *)
(***************************************************************************)
\* Largest number of directory entries read_dir yields in one run.
MaxModules == 3

(***************************************************************************)
(* Strings.  A &str is a sequence of code points; its len() and its slices *)
(* count UTF-8 bytes.                                                      *)
(***************************************************************************)
\* main.rs:80  description.len() > 32
DescWidth == 32
\* main.rs:81  &description[..29]
DescKeep == 29

Utf8Len(c) == IF c < 128 THEN 1 ELSE IF c < 2048 THEN 2 ELSE IF c < 65536 THEN 3 ELSE 4

RECURSIVE ByteLen(_)
ByteLen(s) == IF s = <<>> THEN 0 ELSE Utf8Len(Head(s)) + ByteLen(Tail(s))

\* str::is_char_boundary(n): n is 0, len(), or the byte offset of a code point.
IsCharBoundary(s, n) == \E k \in 0..Len(s) : ByteLen(SubSeq(s, 1, k)) = n

\* &s[..n] for a char boundary n: the code points that end at byte n or before.
SliceTo(s, n) == SubSeq(s, 1, CHOOSE k \in 0..Len(s) : ByteLen(SubSeq(s, 1, k)) = n)

Ellipsis == <<46, 46, 46>>

\* main.rs:80-84.  The slice panics when byte 29 is inside a code point.
TruncatePanics(description) ==
    /\ ByteLen(description) > DescWidth
    /\ ~IsCharBoundary(description, DescKeep)

Truncate(description) ==
    IF ByteLen(description) > DescWidth
    THEN SliceTo(description, DescKeep) \o Ellipsis
    ELSE description

Rep(n, c) == [k \in 1..n |-> c]

(***************************************************************************)
(* The inputs of a host run: the plugin directory and the command line.    *)
(***************************************************************************)
DescShort == <<112, 102>>
DescFull  == Rep(DescWidth, 120)
DescLong  == Rep(DescWidth + 1, 120)
\* 28 ASCII bytes, a two-byte code point over bytes 28..29, four ASCII bytes
DescSplit == Rep(DescKeep - 1, 120) \o <<233>> \o Rep(4, 120)

NoDesc == <<>>

\* What create_plugin() of a module returns: name(), version(), description();
\* subcommand() is Command::new(self.name()) in every plugin of the repository.
Plugins ==
    { [kind |-> "ok", name |-> "a", version |-> "0.1.0", description |-> DescShort],
      [kind |-> "ok", name |-> "b", version |-> "0.2.0", description |-> DescLong],
      [kind |-> "ok", name |-> "a", version |-> "0.2.0", description |-> DescFull],
      [kind |-> "ok", name |-> "b", version |-> "0.1.0", description |-> DescSplit] }

\* Directory entries that are no plugin: a file without the dylib extension,
\* libplugin_api.dylib, a dylib that does not open, a dylib without create_plugin.
NonPlugins ==
    { [kind |-> k, name |-> "", version |-> "", description |-> NoDesc] :
        k \in {"other", "api", "bad", "nosym"} }

Files == Plugins \cup NonPlugins

Dirs == UNION { [1..n -> Files] : n \in 0..MaxModules }

NoSub == "-"
SubNames == {"a", "b", "zz"}
SubArgs == {"x", "y"}

\* The process arguments: --list-plugins, the subcommand word and its arguments.
CommandLines ==
    { [list |-> l, sub |-> NoSub, subArgs |-> NoSub] : l \in BOOLEAN }
    \cup { [list |-> l, sub |-> s, subArgs |-> a] :
             l \in BOOLEAN, s \in SubNames, a \in SubArgs }

VARIABLES
    dir,            \* the entries read_dir yields, in its order
    args,           \* the command line
    debugBuild,     \* whether clap's debug assertions are compiled in
    pc,             \* position in main()
    i,              \* next directory entry of the discovery loop
    plugins,        \* the Vec<(Library, Box<dyn Plugin>)>: indices into dir
    lib,            \* per entry: "unopened", "open", "closed"
    inst,           \* per entry: "none", "alive", "dropped"
    subcommands,    \* names of the subcommands added to app
    j,              \* next row of the --list-plugins loop
    rows,           \* rows printed by --list-plugins
    cur,            \* entry whose run() was called (0: none)
    runs,           \* history: the run() calls made
    released,       \* history: the capability parts destroyed, in order
    dropq,          \* destructors still to run before control goes on
    usage,          \* whether print_help wrote the usage text
    exitKind,       \* how the process ended ("none" while it runs)
    exitCode,
    \* one relayed connection (handle_native_connection)
    protocol,       \* the Protocol of the run
    conn,           \* "none", "attach", "relay", "closed", "failed"
    pending,        \* per direction: bytes the source has still to deliver
    phase,          \* per direction: "read", "write", or "done" once the copy loop broke
    chunk,          \* per direction: &buffer[..n] of the last read
    lastLog,        \* per direction: the record log_message made of the last chunk
    got,            \* history, per direction: all bytes read from the source
    sent,           \* history, per direction: all bytes written to the peer
    tunnel,         \* what the attach gave: "none", "both", "missing", "refused"
    \* one run of the relay capability (run, start_port_forward)
    file,           \* the config file: whether it is there and parses, and its content
    cli,            \* the overrides given on the command line (protocol: <<>> or <<value>>)
    cluster,        \* what a pod listing answers: whether it succeeds, and the pods
    rpc,            \* position in run() / start_port_forward()
    config,         \* the K8sNativeConfig being merged
    k8s_client,     \* whether Client::try_default() has made the client
    listCalls,      \* history: number of pod listing calls made
    report,         \* history: the pod names find_pod_by_selector printed
    pod_name,       \* the resolved pod
    running,        \* the AtomicBool the accept loop tests
    listener,       \* whether the local port is bound
    conns,          \* the accepted connections, in accept order
    relayExit,      \* the exit status, when rpc is "exited" or "usage"
    \* one run of the k8s_port_forward plugin (run, spawn_kubectl_port_forward)
    cfg,            \* what load_config gives: whether it is Some, and the forward entries
    name_filter,    \* --name: <<>> or << value >>
    kubectl,        \* what kubectl does: the output of `get`, whether port-forward spawns
    fpc,            \* position in run() / spawn_kubectl_port_forward()
    forwards,       \* the selected entries
    fwd,            \* the entry given to spawn_kubectl_port_forward
    target,         \* the resource argument of the port-forward command: <<>> or << arg >>
    spawned,        \* history: the entries a port-forward child was spawned for
    child,          \* the port-forward child: "none", "running", "exited"
    handler,        \* whether the Ctrl-C handler is installed
    signals,        \* history: what each SIGTERM of the handler was sent to
    interrupts      \* history: number of interrupts the process received

hostVars == << dir, args, debugBuild, pc, i, plugins, lib, inst, subcommands, j, rows,
               cur, runs, released, dropq, usage, exitKind, exitCode >>

connVars == << protocol, conn, pending, phase, chunk, lastLog, got, sent, tunnel >>

relayVars == << file, cli, cluster, rpc, config, k8s_client, listCalls, report, pod_name,
                running, listener, conns, relayExit >>

fwdVars == << cfg, name_filter, kubectl, fpc, forwards, fwd, target, spawned, child,
              handler, signals, interrupts >>

vars == << hostVars, connVars, relayVars, fwdVars >>

\* The two copy directions of a connection: client -> pod and pod -> client.
Directions == {"request", "response"}

\* No connection exists (the host has not dispatched to the relay).
ConnIdle ==
    /\ protocol = "Tcp"
    /\ conn = "none"
    /\ pending = [d \in Directions |-> <<>>]
    /\ phase = [d \in Directions |-> "read"]
    /\ chunk = [d \in Directions |-> <<>>]
    /\ lastLog = [d \in Directions |-> <<>>]
    /\ got = [d \in Directions |-> <<>>]
    /\ sent = [d \in Directions |-> <<>>]
    /\ tunnel = "none"

\* An absent Option / an option not given on the command line.
None == "None"

\* No K8sNativeConfig yet.
NoConfig ==
    [namespace |-> None, pod_name |-> None, pod_selector |-> None, remote_port |-> 0,
     protocol |-> <<>>]

\* The relay capability was not started.
RelayIdle ==
    /\ file = [state |-> "missing", content |-> NoConfig]
    /\ cli = [pod |-> None, selector |-> None, namespace |-> None, remote_port |-> <<>>,
              protocol |-> <<>>]
    /\ cluster = [ok |-> TRUE, items |-> <<>>]
    /\ rpc = "idle"
    /\ config = NoConfig
    /\ k8s_client = FALSE
    /\ listCalls = 0
    /\ report = <<>>
    /\ pod_name = None
    /\ running = TRUE
    /\ listener = FALSE
    /\ conns = <<>>
    /\ relayExit = 0

\* A PortForward that is none of the config's.
NoForward == [name |-> <<>>, labels |-> <<>>, type |-> "none"]

\* The k8s_port_forward plugin was not started.
FwdIdle ==
    /\ cfg = [ok |-> FALSE, forward |-> <<>>]
    /\ name_filter = <<>>
    /\ kubectl = [get |-> [ok |-> FALSE, stdout |-> <<>>], spawn |-> FALSE]
    /\ fpc = "idle"
    /\ forwards = <<>>
    /\ fwd = NoForward
    /\ target = <<>>
    /\ spawned = <<>>
    /\ child = "none"
    /\ handler = FALSE
    /\ signals = <<>>
    /\ interrupts = 0

Init ==
    /\ dir \in Dirs
    /\ args \in CommandLines
    /\ debugBuild \in BOOLEAN
    /\ pc = "discover"
    /\ i = 1
    /\ plugins = <<>>
    /\ lib = [k \in DOMAIN dir |-> "unopened"]
    /\ inst = [k \in DOMAIN dir |-> "none"]
    /\ subcommands = <<>>
    /\ j = 1
    /\ rows = <<>>
    /\ cur = 0
    /\ runs = <<>>
    /\ released = <<>>
    /\ dropq = <<>>
    /\ usage = FALSE
    /\ exitKind = "none"
    /\ exitCode = 0
    /\ ConnIdle
    /\ RelayIdle
    /\ FwdIdle

(***************************************************************************)
(* Destructors.  dropq holds the parts still to destroy, in order; main()  *)
(* goes on only when it is empty.                                          *)
(***************************************************************************)
LibPart(k)  == [part |-> "lib", k |-> k]
InstPart(k) == [part |-> "inst", k |-> k]

\* main.rs:46.  An element of plugins is the tuple (lib, plugin); a tuple drops
\* its fields in declaration order: the Library first, then the Box<dyn Plugin>.
DropTuple(k) == << LibPart(k), InstPart(k) >>

\* Mutant of VecDrop: the elements are dropped back to front.
RECURSIVE VecDropBackToFront(_)
VecDropBackToFront(ps) ==
    IF ps = <<>> THEN <<>>
    ELSE VecDropBackToFront(Tail(ps)) \o << LibPart(Head(ps)), InstPart(Head(ps)) >>

\* Dropping the Vec, or what is left of its IntoIter, drops the elements front to back.
RECURSIVE VecDrop(_)
VecDrop(ps) == IF ps = <<>> THEN <<>> ELSE DropTuple(Head(ps)) \o VecDrop(Tail(ps))

\* main.rs:104-109.  `for (_, plugin) in plugins`: the binding plugin is dropped
\* when the body ends, then the temporary that still holds the Library.
DropLoopItem(k) == << InstPart(k), LibPart(k) >>

\* A panic unwinds main(): the locals are dropped, plugins among them.
Unwind ==
    /\ pc' = "unwind"
    /\ dropq' = VecDrop(plugins)
    /\ plugins' = <<>>

\* std::process::exit, a clap error, a crash: no destructor runs.
Terminate(kind, code) ==
    /\ pc' = "exited"
    /\ exitKind' = kind
    /\ exitCode' = code

\* Exit statuses: 101 a panicking main thread, 2 clap's usage error, 139 a process
\* killed by SIGSEGV as the shell reports it, 0 main() returning.

(***************************************************************************)
(* Discovery, main.rs:29-51.                                               *)
(***************************************************************************)
InDiscovery == pc = "discover" /\ dropq = <<>> /\ i <= Len(dir)

\* main.rs:32-37: not a .dylib, or libplugin_api.dylib.
SkipEntry ==
    /\ InDiscovery
    /\ dir[i].kind \in {"other", "api"}
    /\ i' = i + 1
    /\ UNCHANGED << connVars, relayVars, fwdVars, dir, args, debugBuild, pc, plugins, lib, inst, subcommands, j, rows,
                    cur, runs, released, dropq, usage, exitKind, exitCode >>

\* main.rs:40: Library::new(&path).unwrap() on a file that does not open.
LoadFails ==
    /\ InDiscovery
    /\ dir[i].kind = "bad"
    /\ Unwind
    /\ UNCHANGED << connVars, relayVars, fwdVars, dir, args, debugBuild, i, lib, inst, subcommands, j, rows,
                    cur, runs, released, usage, exitKind, exitCode >>

\* main.rs:41-48: lib.get(b"create_plugin") is Err: lib goes out of scope.
NoFactory ==
    /\ InDiscovery
    /\ dir[i].kind = "nosym"
    /\ lib' = [lib EXCEPT ![i] = "closed"]
    /\ i' = i + 1
    /\ UNCHANGED << connVars, relayVars, fwdVars, dir, args, debugBuild, pc, plugins, inst, subcommands, j, rows,
                    cur, runs, released, dropq, usage, exitKind, exitCode >>

\* main.rs:43-47: constructor(), app.subcommand(..), plugins.push((lib, plugin)).
LoadPlugin ==
    /\ InDiscovery
    /\ dir[i].kind = "ok"
    /\ lib' = [lib EXCEPT ![i] = "open"]
    /\ inst' = [inst EXCEPT ![i] = "alive"]
    /\ subcommands' = Append(subcommands, dir[i].name)
    /\ plugins' = Append(plugins, i)
    /\ i' = i + 1
    /\ UNCHANGED << connVars, relayVars, fwdVars, dir, args, debugBuild, pc, j, rows,
                    cur, runs, released, dropq, usage, exitKind, exitCode >>

(***************************************************************************)
(* Argument parsing, main.rs:53-54.                                        *)
(***************************************************************************)
HasDuplicate(names) ==
    \E p, q \in DOMAIN names : p < q /\ names[p] = names[q]

InSeq(x, s) == \E p \in DOMAIN s : s[p] = x

AtParse == pc = "discover" /\ dropq = <<>> /\ i > Len(dir)

\* clap checks that subcommand names are unique only under debug_assertions.
DuplicateAssert ==
    /\ AtParse
    /\ debugBuild
    /\ HasDuplicate(subcommands)
    /\ Unwind
    /\ UNCHANGED << connVars, relayVars, fwdVars, dir, args, debugBuild, i, lib, inst, subcommands, j, rows,
                    cur, runs, released, usage, exitKind, exitCode >>

\* get_matches() on a subcommand word no loaded plugin registered: clap exits.
ParseError ==
    /\ AtParse
    /\ ~(debugBuild /\ HasDuplicate(subcommands))
    /\ args.sub # NoSub
    /\ ~InSeq(args.sub, subcommands)
    /\ Terminate("clap_error", 2)
    /\ UNCHANGED << connVars, relayVars, fwdVars, dir, args, debugBuild, i, plugins, lib, inst, subcommands, j, rows,
                    cur, runs, released, dropq, usage >>

\* Mutant of ListRequested: the flag is not looked at.
ListIgnored == FALSE

\* main.rs:57: matches.get_flag("list-plugins")
ListRequested == args.list

\* get_matches() succeeds; main.rs:57 takes the --list-plugins branch or not.
ParseOk ==
    /\ AtParse
    /\ ~(debugBuild /\ HasDuplicate(subcommands))
    /\ args.sub = NoSub \/ InSeq(args.sub, subcommands)
    /\ pc' = IF ListRequested THEN "list" ELSE "dispatch"
    /\ UNCHANGED << connVars, relayVars, fwdVars, dir, args, debugBuild, i, plugins, lib, inst, subcommands, j, rows,
                    cur, runs, released, dropq, usage, exitKind, exitCode >>

(***************************************************************************)
(* --list-plugins, main.rs:57-101.                                         *)
(***************************************************************************)
Row(k) == [name |-> dir[k].name, version |-> dir[k].version,
           description |-> Truncate(dir[k].description)]

\* main.rs:74-90, one iteration.
ListRow ==
    /\ pc = "list" /\ dropq = <<>>
    /\ j <= Len(plugins)
    /\ ~TruncatePanics(dir[plugins[j]].description)
    /\ rows' = Append(rows, Row(plugins[j]))
    /\ j' = j + 1
    /\ UNCHANGED << connVars, relayVars, fwdVars, dir, args, debugBuild, pc, i, plugins, lib, inst, subcommands,
                    cur, runs, released, dropq, usage, exitKind, exitCode >>

\* main.rs:81: the slice panics inside a code point.
ListRowPanics ==
    /\ pc = "list" /\ dropq = <<>>
    /\ j <= Len(plugins)
    /\ TruncatePanics(dir[plugins[j]].description)
    /\ Unwind
    /\ UNCHANGED << connVars, relayVars, fwdVars, dir, args, debugBuild, i, lib, inst, subcommands, j, rows,
                    cur, runs, released, usage, exitKind, exitCode >>

\* main.rs:100: return; plugins is dropped.
ListReturn ==
    /\ pc = "list" /\ dropq = <<>>
    /\ j > Len(plugins)
    /\ pc' = "returning"
    /\ dropq' = VecDrop(plugins)
    /\ plugins' = <<>>
    /\ UNCHANGED << connVars, relayVars, fwdVars, dir, args, debugBuild, i, lib, inst, subcommands, j, rows,
                    cur, runs, released, usage, exitKind, exitCode >>

(***************************************************************************)
(* Dispatch, main.rs:103-116.  plugins is consumed by value.               *)
(***************************************************************************)
\* Mutant of DispatchMatches: the first entry is taken whenever a subcommand was given.
DispatchFirst(k) == args.sub # NoSub

\* main.rs:105: matches.subcommand_matches(plugin.name()) is Some.
DispatchMatches(k) == args.sub # NoSub /\ dir[k].name = args.sub

\* main.rs:106: (*plugin).run(sub_m)
CallRun ==
    /\ pc = "dispatch" /\ dropq = <<>>
    /\ plugins # <<>>
    /\ DispatchMatches(Head(plugins))
    /\ cur' = Head(plugins)
    /\ runs' = Append(runs, [k |-> Head(plugins), name |-> dir[Head(plugins)].name,
                             args |-> args.subArgs])
    /\ plugins' = Tail(plugins)
    /\ pc' = "running"
    /\ UNCHANGED << connVars, relayVars, fwdVars, dir, args, debugBuild, i, lib, inst, subcommands, j, rows,
                    released, dropq, usage, exitKind, exitCode >>

\* main.rs:104-108: the entry does not match; the loop item is dropped.
DispatchSkip ==
    /\ pc = "dispatch" /\ dropq = <<>>
    /\ plugins # <<>>
    /\ ~DispatchMatches(Head(plugins))
    /\ dropq' = DropLoopItem(Head(plugins))
    /\ plugins' = Tail(plugins)
    /\ UNCHANGED << connVars, relayVars, fwdVars, dir, args, debugBuild, pc, i, lib, inst, subcommands, j, rows,
                    cur, runs, released, usage, exitKind, exitCode >>

\* run() returns; main.rs:107 return: the loop item, then the rest of the iterator.
RunReturns ==
    /\ pc = "running"
    /\ pc' = "returning"
    /\ dropq' = DropLoopItem(cur) \o VecDrop(plugins)
    /\ plugins' = <<>>
    /\ UNCHANGED << connVars, relayVars, fwdVars, dir, args, debugBuild, i, lib, inst, subcommands, j, rows,
                    cur, runs, released, usage, exitKind, exitCode >>

\* run() ends the process itself (std::process::exit in the plugins).
RunExits ==
    /\ pc = "running"
    /\ \E code \in {0, 1} : Terminate("plugin_exit", code)
    /\ UNCHANGED << connVars, relayVars, fwdVars, dir, args, debugBuild, i, plugins, lib, inst, subcommands, j, rows,
                    cur, runs, released, dropq, usage >>

\* The subcommands of app_clone keep &'static str of the modules that made them.
HelpDangles == \E k \in DOMAIN dir : inst[k] # "none" /\ lib[k] = "closed"

\* main.rs:112-115: the loop ended without a match; print_help on no subcommand.
FallThrough ==
    /\ pc = "dispatch" /\ dropq = <<>>
    /\ plugins = <<>>
    /\ usage' = (args.sub = NoSub)
    /\ pc' = "returning"
    /\ UNCHANGED << connVars, relayVars, fwdVars, dir, args, debugBuild, i, plugins, lib, inst, subcommands, j, rows,
                    cur, runs, released, dropq, exitKind, exitCode >>

\* main.rs:113: print_help reads strings of a module that is already unloaded.
HelpCrashes ==
    /\ pc = "dispatch" /\ dropq = <<>>
    /\ plugins = <<>>
    /\ args.sub = NoSub
    /\ HelpDangles
    /\ Terminate("crash", 139)
    /\ UNCHANGED << connVars, relayVars, fwdVars, dir, args, debugBuild, i, plugins, lib, inst, subcommands, j, rows,
                    cur, runs, released, dropq, usage >>

(***************************************************************************)
(* Running the pending destructors, and the end of the process.            *)
(***************************************************************************)
\* Library::drop: the module is unloaded.
DropLib ==
    /\ pc # "exited" /\ dropq # <<>>
    /\ Head(dropq).part = "lib"
    /\ lib' = [lib EXCEPT ![Head(dropq).k] = "closed"]
    /\ released' = Append(released, Head(dropq))
    /\ dropq' = Tail(dropq)
    /\ UNCHANGED << connVars, relayVars, fwdVars, dir, args, debugBuild, pc, i, plugins, inst, subcommands, j, rows,
                    cur, runs, usage, exitKind, exitCode >>

\* Box<dyn Plugin>::drop, through the vtable that lives in the module.
DropInst ==
    /\ pc # "exited" /\ dropq # <<>>
    /\ Head(dropq).part = "inst"
    /\ inst' = [inst EXCEPT ![Head(dropq).k] = "dropped"]
    /\ released' = Append(released, Head(dropq))
    /\ dropq' = Tail(dropq)
    /\ UNCHANGED << connVars, relayVars, fwdVars, dir, args, debugBuild, pc, i, plugins, lib, subcommands, j, rows,
                    cur, runs, usage, exitKind, exitCode >>

\* The same drop when the module is already unloaded: the vtable is gone.
DropInstCrashes ==
    /\ pc # "exited" /\ dropq # <<>>
    /\ Head(dropq).part = "inst"
    /\ lib[Head(dropq).k] = "closed"
    /\ Terminate("crash", 139)
    /\ UNCHANGED << connVars, relayVars, fwdVars, dir, args, debugBuild, i, plugins, lib, inst, subcommands, j, rows,
                    cur, runs, released, dropq, usage >>

\* main() returned and its locals are dropped: exit status 0.
MainReturns ==
    /\ pc = "returning" /\ dropq = <<>>
    /\ Terminate("main_return", 0)
    /\ UNCHANGED << connVars, relayVars, fwdVars, dir, args, debugBuild, i, plugins, lib, inst, subcommands, j, rows,
                    cur, runs, released, dropq, usage >>

\* The panic has unwound main(): exit status 101.
PanicExits ==
    /\ pc = "unwind" /\ dropq = <<>>
    /\ Terminate("panic", 101)
    /\ UNCHANGED << connVars, relayVars, fwdVars, dir, args, debugBuild, i, plugins, lib, inst, subcommands, j, rows,
                    cur, runs, released, dropq, usage >>

Next ==
    \/ SkipEntry \/ LoadFails \/ NoFactory \/ LoadPlugin
    \/ DuplicateAssert \/ ParseError \/ ParseOk
    \/ ListRow \/ ListRowPanics \/ ListReturn
    \/ CallRun \/ DispatchSkip \/ RunReturns \/ RunExits
    \/ FallThrough \/ HelpCrashes
    \/ DropLib \/ DropInst \/ DropInstCrashes
    \/ MainReturns \/ PanicExits

Spec == Init /\ [][Next]_vars

(***************************************************************************)
(* The protocol classifier of the relay,                                   *)
(* plugins/k8s_native_port_forward/src/lib.rs:104-207.  A chunk is a       *)
(* sequence of bytes; a &str is kept as its UTF-8 bytes.  A log record is  *)
(* the sequence of lines printed (the timestamp is left out).              *)
(***************************************************************************)
\* lib.rs:295  vec![0u8; 8192]
BufSize == 8192
\* lib.rs:193  min(100, data.len())
PreviewLen == 100
\* lib.rs:181  min(50, data.len())
RawPreviewLen == 50
\* lib.rs:155  data.len() >= 5
PgHeaderLen == 5

Protocols == {"Tcp", "Http", "Postgres"}

Min(a, b) == IF a < b THEN a ELSE b

Line(kind, direction, n, text) ==
    [kind |-> kind, direction |-> direction, n |-> n, text |-> text]

IsCont(b) == b \in 128..191

\* std::str::from_utf8(bytes).is_ok()
RECURSIVE ValidUtf8(_)
ValidUtf8(b) ==
    IF b = <<>> THEN TRUE
    ELSE LET h == Head(b) IN
         IF h < 128 THEN ValidUtf8(Tail(b))
         ELSE IF h \in 194..223
         THEN Len(b) >= 2 /\ IsCont(b[2]) /\ ValidUtf8(SubSeq(b, 3, Len(b)))
         ELSE IF h \in 224..239
         THEN /\ Len(b) >= 3 /\ IsCont(b[2]) /\ IsCont(b[3])
              /\ (h = 224 => b[2] >= 160)
              /\ (h = 237 => b[2] <= 159)
              /\ ValidUtf8(SubSeq(b, 4, Len(b)))
         ELSE IF h \in 240..244
         THEN /\ Len(b) >= 4 /\ IsCont(b[2]) /\ IsCont(b[3]) /\ IsCont(b[4])
              /\ (h = 240 => b[2] >= 144)
              /\ (h = 244 => b[2] <= 143)
              /\ ValidUtf8(SubSeq(b, 5, Len(b)))
         ELSE FALSE

StartsWith(b, p) == Len(b) >= Len(p) /\ SubSeq(b, 1, Len(p)) = p

\* str::find(pat): the byte offset of the first occurrence, -1 for None.
Find(b, pat) ==
    LET hits == { o \in 0..(Len(b) - Len(pat)) : SubSeq(b, o + 1, o + Len(pat)) = pat }
    IN  IF hits = {} THEN -1 ELSE CHOOSE o \in hits : \A o2 \in hits : o <= o2

\* hex::encode: two lower-case hex digits per byte.
HexDigit(v) == IF v < 10 THEN 48 + v ELSE 87 + v

RECURSIVE HexEncode(_)
HexEncode(b) ==
    IF b = <<>> THEN <<>>
    ELSE << HexDigit(Head(b) \div 16), HexDigit(Head(b) % 16) >> \o HexEncode(Tail(b))

\* lib.rs:199: c.is_ascii_graphic() || c.is_ascii_whitespace()
IsGraphicOrSpace(b) == b \in 33..126 \/ b \in {9, 10, 12, 13, 32}

\* lib.rs:200: replace('\n', "\\n").replace('\r', "\\r")
RECURSIVE Escape(_)
Escape(t) ==
    IF t = <<>> THEN <<>>
    ELSE (IF Head(t) = 10 THEN <<92, 110>>
          ELSE IF Head(t) = 13 THEN <<92, 114>>
          ELSE << Head(t) >>) \o Escape(Tail(t))

\* lib.rs:189-207
log_tcp_message(direction, data) ==
    LET preview == SubSeq(data, 1, Min(PreviewLen, Len(data)))
    IN  << Line("TCP Message", direction, Len(data), <<>>),
           Line("Hex", "", 0, HexEncode(preview)) >>
        \o (IF ValidUtf8(preview) /\ \A x \in DOMAIN preview : IsGraphicOrSpace(preview[x])
            THEN << Line("Text", "", 0, Escape(preview)) >>
            ELSE <<>>)
        \o (IF Len(data) > Len(preview)
            THEN << Line("more bytes", "", Len(data) - Len(preview), <<>>) >>
            ELSE <<>>)

\* "GET ", "POST ", "PUT ", "DELETE ", "HTTP/"
HttpPrefixes ==
    { <<71, 69, 84, 32>>, <<80, 79, 83, 84, 32>>, <<80, 85, 84, 32>>,
      <<68, 69, 76, 69, 84, 69, 32>>, <<72, 84, 84, 80, 47>> }

CrLfCrLf == <<13, 10, 13, 10>>

\* str::lines(): split at \n, a \r right before the \n is dropped, no empty last line.
RECURSIVE Lines(_)
Lines(t) ==
    IF t = <<>> THEN <<>>
    ELSE LET nl == Find(t, <<10>>) IN
         IF nl < 0 THEN << t >>
         ELSE LET raw == SubSeq(t, 1, nl)
                  ln  == IF raw # <<>> /\ raw[Len(raw)] = 13
                         THEN SubSeq(raw, 1, Len(raw) - 1) ELSE raw
              IN  << ln >> \o Lines(SubSeq(t, nl + 2, Len(t)))

\* Mutant of HttpBody: the body block is printed also when it is empty.
HttpBodyAlways(body) == << Line("Body", "", 0, <<>>), Line("body", "", 0, body) >>

\* lib.rs:132-135: the body block, when there is a body.
HttpBody(body) ==
    IF body # <<>> THEN << Line("Body", "", 0, <<>>), Line("body", "", 0, body) >> ELSE <<>>

\* lib.rs:114-145
log_http_message(direction, data) ==
    IF ValidUtf8(data) /\ \E p \in HttpPrefixes : StartsWith(data, p)
    THEN LET header_end == Find(data, CrLfCrLf) IN
         << Line("HTTP Message", direction, 0, <<>>) >>
         \o (IF header_end >= 0
             THEN LET headers == SubSeq(data, 1, header_end)
                      body    == SubSeq(data, header_end + 5, Len(data))
                      hl      == Lines(headers)
                  IN  << Line("Headers", "", 0, <<>>) >>
                      \o [x \in DOMAIN hl |-> Line("header", "", 0, hl[x])]
                      \o HttpBody(body)
             ELSE << Line("text", "", 0, data) >>)
    ELSE log_tcp_message(direction, data)

\* str::trim_end_matches('\0')
RECURSIVE TrimEndNul(_)
TrimEndNul(t) ==
    IF t # <<>> /\ t[Len(t)] = 0 THEN TrimEndNul(SubSeq(t, 1, Len(t) - 1)) ELSE t

\* u32::from_be_bytes([data[1], data[2], data[3], data[4]])
BeU32(data) == ((data[2] * 256 + data[3]) * 256 + data[4]) * 256 + data[5]

\* Message types that print their name and declared length: P B E T D R
PgNamed ==
    [t \in {80, 66, 69, 84, 68, 82} |->
        CASE t = 80 -> "Parse message"
          [] t = 66 -> "Bind message"
          [] t = 69 -> "Execute message"
          [] t = 84 -> "Row Description"
          [] t = 68 -> "Data Row"
          [] t = 82 -> "Authentication Response"]

\* Message types that print their name only: S X Z
PgBare ==
    [t \in {83, 88, 90} |->
        CASE t = 83 -> "Sync message"
          [] t = 88 -> "Terminate message"
          [] t = 90 -> "Ready for Query"]

\* lib.rs:147-187
log_postgres_message(direction, data) ==
    IF data = <<>> THEN <<>>
    ELSE << Line("PostgreSQL Message", direction, 0, <<>>) >>
         \o (IF Len(data) >= PgHeaderLen
             THEN LET msg_type == data[1]
                      length   == BeU32(data)
                      rest     == SubSeq(data, PgHeaderLen + 1, Len(data))
                  IN  IF msg_type = 81
                      THEN (IF ValidUtf8(rest)
                            THEN << Line("Query", "", 0, TrimEndNul(rest)) >> ELSE <<>>)
                      ELSE IF msg_type = 67
                      THEN (IF ValidUtf8(rest)
                            THEN << Line("Command Complete", "", 0, TrimEndNul(rest)) >>
                            ELSE <<>>)
                      ELSE IF msg_type \in DOMAIN PgNamed
                      THEN << Line(PgNamed[msg_type], "", length, <<>>) >>
                      ELSE IF msg_type \in DOMAIN PgBare
                      THEN << Line(PgBare[msg_type], "", 0, <<>>) >>
                      ELSE << Line("Unknown message type", "", length, << msg_type >>),
                              Line("Raw data", "", 0,
                                   HexEncode(SubSeq(data, 1, Min(RawPreviewLen, Len(data))))) >>
             ELSE log_tcp_message(direction, data))

\* lib.rs:104-112
log_message(direction, proto, data) ==
    CASE proto = "Http"     -> log_http_message(direction, data)
      [] proto = "Postgres" -> log_postgres_message(direction, data)
      [] proto = "Tcp"      -> log_tcp_message(direction, data)

(***************************************************************************)
(* One relayed connection, handle_native_connection, lib.rs:236-348.       *)
(* ConnSpec: the attach, then the two copy loops raced by select!.         *)
(***************************************************************************)
\* What a peer delivers over the life of the connection.
\*   Q, declared length 6, "S\0"  |  "GET /"  |  an invalid UTF-8 byte, LF  |  nothing
\*   Q, declared length 5, an invalid UTF-8 byte  |  "PUT \r\n\r\nb"
Streams ==
    { <<81, 0, 0, 0, 6, 83, 0>>, <<71, 69, 84, 32, 47>>, <<255, 10>>, <<>>,
      <<81, 0, 0, 0, 5, 255>>, <<80, 85, 84, 32, 13, 10, 13, 10, 98>> }

\* The host is inside the plugin's run(); nothing of it moves.
HostInRun ==
    /\ dir = <<>>
    /\ args = [list |-> FALSE, sub |-> NoSub, subArgs |-> NoSub]
    /\ debugBuild = FALSE
    /\ pc = "running"
    /\ i = 1
    /\ plugins = <<>>
    /\ lib = <<>>
    /\ inst = <<>>
    /\ subcommands = <<>>
    /\ j = 1
    /\ rows = <<>>
    /\ cur = 0
    /\ runs = <<>>
    /\ released = <<>>
    /\ dropq = <<>>
    /\ usage = FALSE
    /\ exitKind = "none"
    /\ exitCode = 0

\* A client connection was accepted and handed to handle_native_connection.
ConnInit ==
    /\ HostInRun
    /\ RelayIdle
    /\ FwdIdle
    /\ protocol \in Protocols
    /\ conn = "attach"
    /\ pending \in [Directions -> Streams]
    /\ phase = [d \in Directions |-> "read"]
    /\ chunk = [d \in Directions |-> <<>>]
    /\ lastLog = [d \in Directions |-> <<>>]
    /\ got = [d \in Directions |-> <<>>]
    /\ sent = [d \in Directions |-> <<>>]
    /\ tunnel = "none"

Other(d) == CHOOSE o \in Directions : o # d

\* lib.rs:278-291: exec() succeeded and both stdin() and stdout() are Some.
AttachOk ==
    /\ conn = "attach"
    /\ conn' = "relay"
    /\ tunnel' = "both"
    /\ UNCHANGED << hostVars, fwdVars, relayVars, protocol, pending, phase, chunk, lastLog, got, sent >>

\* lib.rs:278-280: pods.exec(..).await? is Err.
AttachFails ==
    /\ conn = "attach"
    /\ conn' = "failed"
    /\ tunnel' = "refused"
    /\ UNCHANGED << hostVars, fwdVars, relayVars, protocol, pending, phase, chunk, lastLog, got, sent >>

\* Mutant of OnMissingHandle: the connection goes on with the half it has.
OnMissingHandleDegraded == "relay"

\* lib.rs:290-291: ok_or_else(..)? returns the error from handle_native_connection.
OnMissingHandle == "failed"

\* lib.rs:290-291: attached.stdin() or attached.stdout() is None.
MissingHandle ==
    /\ conn = "attach"
    /\ conn' = OnMissingHandle
    /\ tunnel' = "missing"
    /\ UNCHANGED << hostVars, fwdVars, relayVars, protocol, pending, phase, chunk, lastLog, got, sent >>

\* Mutant of WriteData: under Postgres the payload the classifier decoded (the
\* chunk without its 5-byte header) is forwarded instead of the raw chunk.
WriteDecoded(d) ==
    IF protocol = "Postgres" /\ Len(chunk[d]) >= PgHeaderLen
    THEN SubSeq(chunk[d], PgHeaderLen + 1, Len(chunk[d]))
    ELSE chunk[d]

\* lib.rs:300,303 and 324,327: data = &buffer[..n] is what write_all is given.
WriteData(d) == chunk[d]

\* Mutant of Written: a single write(), which may take only the head of the chunk.
WrittenByWrite(d) == { SubSeq(WriteData(d), 1, n) : n \in 1..Len(WriteData(d)) }

\* lib.rs:303 and 327: what has been written when write_all returns Ok.
Written(d) == { WriteData(d) }

\* What write_all may have put on the wire when it does not complete.
PartialWrites(d) == { SubSeq(WriteData(d), 1, n) : n \in 0..(Len(WriteData(d)) - 1) }

\* Mutant of Finish: the connection ends only when both loops have finished.
FinishJoined(d, sentByD) ==
    /\ conn' = IF phase[Other(d)] = "done" THEN "closed" ELSE "relay"
    /\ phase' = [phase EXCEPT ![d] = "done"]
    /\ sent' = [sent EXCEPT ![d] = sentByD]

\* lib.rs:298,305,310 / 322,329,334 and 341-344: loop d breaks, select! returns and
\* the other loop is dropped where it is, possibly inside write_all.
Finish(d, sentByD) ==
    /\ conn' = "closed"
    /\ phase' = [phase EXCEPT ![d] = "done"]
    /\ \E part \in (IF phase[Other(d)] = "write" THEN PartialWrites(Other(d)) ELSE { <<>> }) :
          sent' = [x \in Directions |->
                      IF x = d THEN sentByD ELSE sent[x] \o part]

\* Mutant of LogBeforeWrite: no record is made of the chunk before it is written.
LogSkipped(d, data) == lastLog[d]

\* lib.rs:301 and 325: log_message(direction, &protocol, data), a synchronous call
\* between the read and the write_all of the same loop iteration.
LogBeforeWrite(d, data) == log_message(d, protocol, data)

\* lib.rs:297-301 and 321-325: read returns Ok(n), n > 0; the chunk is logged.
ReadChunk(d) ==
    /\ conn = "relay" /\ phase[d] = "read"
    /\ \E n \in 1..Min(BufSize, Len(pending[d])) :
          /\ chunk' = [chunk EXCEPT ![d] = SubSeq(pending[d], 1, n)]
          /\ pending' = [pending EXCEPT ![d] = SubSeq(pending[d], n + 1, Len(pending[d]))]
    /\ got' = [got EXCEPT ![d] = got[d] \o chunk'[d]]
    /\ lastLog' = [lastLog EXCEPT ![d] = LogBeforeWrite(d, chunk'[d])]
    /\ phase' = [phase EXCEPT ![d] = "write"]
    /\ UNCHANGED << hostVars, fwdVars, relayVars, protocol, conn, sent, tunnel >>

\* lib.rs:298 and 322: Ok(0), the source is closed and has nothing left.
ReadEof(d) ==
    /\ conn = "relay" /\ phase[d] = "read"
    /\ pending[d] = <<>>
    /\ Finish(d, sent[d])
    /\ UNCHANGED << hostVars, fwdVars, relayVars, protocol, pending, chunk, lastLog, got, tunnel >>

\* lib.rs:308-311 and 332-335: read returns Err.
ReadFails(d) ==
    /\ conn = "relay" /\ phase[d] = "read"
    /\ Finish(d, sent[d])
    /\ UNCHANGED << hostVars, fwdVars, relayVars, protocol, pending, chunk, lastLog, got, tunnel >>

\* lib.rs:303 and 327: write_all returns Ok: the whole chunk is written.
WriteOk(d) ==
    /\ conn = "relay" /\ phase[d] = "write"
    /\ \E w \in Written(d) : sent' = [sent EXCEPT ![d] = sent[d] \o w]
    /\ phase' = [phase EXCEPT ![d] = "read"]
    /\ UNCHANGED << hostVars, fwdVars, relayVars, protocol, conn, pending, chunk, lastLog, got, tunnel >>

\* lib.rs:303-306 and 327-330: write_all returns Err after part of the chunk.
WriteFails(d) ==
    /\ conn = "relay" /\ phase[d] = "write"
    /\ \E part \in PartialWrites(d) : Finish(d, sent[d] \o part)
    /\ UNCHANGED << hostVars, fwdVars, relayVars, protocol, pending, chunk, lastLog, got, tunnel >>

ConnNext ==
    \/ AttachOk \/ AttachFails \/ MissingHandle
    \/ \E d \in Directions : ReadChunk(d)
    \/ \E d \in Directions : ReadEof(d)
    \/ \E d \in Directions : ReadFails(d)
    \/ \E d \in Directions : WriteOk(d)
    \/ \E d \in Directions : WriteFails(d)

ConnSpec == ConnInit /\ [][ConnNext]_vars

(***************************************************************************)
(* One run of the relay capability: run (lib.rs:500-562),                  *)
(* start_port_forward (350-436) and find_pod_by_selector (209-233).        *)
(* RelaySpec: config loading, overrides, pod resolution, the listener and  *)
(* the accept loop; every accepted connection is a spawned task, kept here *)
(* by its state only, and the interrupt handler runs on its own thread.    *)
(***************************************************************************)
MaxConns == 2

\* Protocol names and other values of the protocol option, as their characters.
\* An Option<String> of them is <<>> for None and << value >> for Some(value).
StrTcp == <<116, 99, 112>>
StrHttp == <<104, 116, 116, 112>>
StrPostgres == <<112, 111, 115, 116, 103, 114, 101, 115>>
StrPostgresql == StrPostgres \o <<113, 108>>
\* "HTTP", "PostgreSQL", "mqtt"
StrUpperHttp == <<72, 84, 84, 80>>
StrMixedPostgresql == <<80, 111, 115, 116, 103, 114, 101, 83, 81, 76>>
StrMqtt == <<109, 113, 116, 116>>

\* Mutant of to_lowercase: the value is compared as it was written.
to_lowercase_skipped(str) == str

\* lib.rs:75: s.to_lowercase(), on the ASCII letters.
to_lowercase(str) == [x \in DOMAIN str |-> IF str[x] \in 65..90 THEN str[x] + 32 ELSE str[x]]

\* lib.rs:73-81: impl From<&str> for Protocol.
ProtocolFrom(str) ==
    LET l == to_lowercase(str) IN
    IF l = StrHttp THEN "Http"
    ELSE IF l = StrPostgres \/ l = StrPostgresql THEN "Postgres"
    ELSE "Tcp"

\* lib.rs:352-354: protocol_override.or(config.protocol).unwrap_or("tcp").
ProtocolChoice(override, configured) ==
    IF override # <<>> THEN override[1]
    ELSE IF configured # <<>> THEN configured[1]
    ELSE StrTcp

\* lib.rs:496: value_parser(["tcp", "http", "postgres"]), matched as written.
ProtocolArgValues == {StrTcp, StrHttp, StrPostgres}

\* lib.rs:491-497: the option is not required; a given value must be one of the list.
ProtocolArgAdmitted(given) == \A x \in DOMAIN given : given[x] \in ProtocolArgValues

\* lib.rs:24-35: K8sNativeConfig::default(), used when there is no config file.
DefaultConfig ==
    [namespace |-> "default", pod_name |-> None, pod_selector |-> None, remote_port |-> 80,
     protocol |-> << StrTcp >>]

\* What a config file can hold (lib.rs:14-22); namespace is a required key.
FileConfigs ==
    [namespace : {"ns"}, pod_name : {None, "p1"}, pod_selector : {None, "app=x"},
     remote_port : {5432}, protocol : {<<>>, << StrMixedPostgresql >>, << StrMqtt >>}]

\* lib.rs:83-102: the file is absent, or does not read or parse, or parses.
ConfigFiles ==
    { [state |-> "missing", content |-> NoConfig],
      [state |-> "unreadable", content |-> NoConfig] }
    \cup [state : {"ok"}, content : FileConfigs]

\* lib.rs:454-497: --pod, --selector, --namespace, --remote-port, --protocol as
\* typed; clap accepts an empty value for the first three.
Overrides ==
    [pod : {None, "", "p2"}, selector : {None, "", "app=y"}, namespace : {None, "", "ns2"},
     remote_port : {<<>>, << 9000 >>},
     protocol : {<<>>, << StrHttp >>, << StrUpperHttp >>}]

\* What pods.list answers: an error, or the pods in the order the API returns them,
\* each by its metadata.name (None: a pod without a name).
Listings ==
    { [ok |-> FALSE, items |-> <<>>] }
    \cup [ok : {TRUE}, items : { <<>>, <<"p1">>, <<"p2", "p1">>, <<"p3", "p1", "p2">>,
                                 << None >>, << None, "p1" >> }]

relayInputs == << file, cli, cluster >>

\* The host is about to parse the command line of the relay's subcommand.
RelayInit ==
    /\ HostInRun
    /\ ConnIdle
    /\ FwdIdle
    /\ file \in ConfigFiles
    /\ cli \in Overrides
    /\ cluster \in Listings
    /\ rpc = "args"
    /\ config = NoConfig
    /\ k8s_client = FALSE
    /\ listCalls = 0
    /\ report = <<>>
    /\ pod_name = None
    /\ running = TRUE
    /\ listener = FALSE
    /\ conns = <<>>
    /\ relayExit = 0

\* A spawned connection task that has not finished.
Open(c) == c.state \in {"attach", "relay"}

\* The process ends, or the Runtime is dropped: the unfinished tasks go with it.
Kill(cs) == [k \in DOMAIN cs |->
                IF Open(cs[k]) THEN [cs[k] EXCEPT !.state = "killed"] ELSE cs[k]]

\* std::process::exit(code) (lib.rs:389, 508, 516, 525, 534, 552, 559).
RelayExit(code) ==
    /\ rpc' = "exited"
    /\ relayExit' = code
    /\ listener' = FALSE
    /\ conns' = Kill(conns)

\* lib.rs:491-497 and main.rs:54: clap admits the --protocol value (or there is
\* none) and the host calls run().
ArgsAccepted ==
    /\ rpc = "args"
    /\ ProtocolArgAdmitted(cli.protocol)
    /\ rpc' = "load_config"
    /\ UNCHANGED << hostVars, fwdVars, connVars, relayInputs, config, k8s_client, listCalls, report,
                    pod_name, running, listener, conns, relayExit >>

\* lib.rs:491-497 and main.rs:54: clap rejects the --protocol value: usage error,
\* exit status 2, run() is never called.
ArgsRejected ==
    /\ rpc = "args"
    /\ ~ProtocolArgAdmitted(cli.protocol)
    /\ rpc' = "usage"
    /\ relayExit' = 2
    /\ UNCHANGED << hostVars, fwdVars, connVars, relayInputs, config, k8s_client, listCalls, report,
                    pod_name, running, listener, conns >>

\* lib.rs:86-89, 504-505: the file exists and parses.
LoadConfigOk ==
    /\ rpc = "load_config"
    /\ file.state = "ok"
    /\ config' = file.content
    /\ rpc' = "override"
    /\ UNCHANGED << hostVars, fwdVars, connVars, relayInputs, k8s_client, listCalls, report, pod_name,
                    running, listener, conns, relayExit >>

\* Mutant of LoadConfigDefaults: a missing file ends the run.
LoadConfigMissingFatal ==
    /\ rpc = "load_config"
    /\ file.state = "missing"
    /\ RelayExit(1)
    /\ UNCHANGED << hostVars, fwdVars, connVars, relayInputs, config, k8s_client, listCalls, report,
                    pod_name, running >>

\* lib.rs:90-95: there is no file; the defaults are used.
LoadConfigDefaults ==
    /\ rpc = "load_config"
    /\ file.state = "missing"
    /\ config' = DefaultConfig
    /\ rpc' = "override"
    /\ UNCHANGED << hostVars, fwdVars, connVars, relayInputs, k8s_client, listCalls, report, pod_name,
                    running, listener, conns, relayExit >>

\* lib.rs:87-88, 506-509: read_to_string or toml::from_str fails.
LoadConfigFails ==
    /\ rpc = "load_config"
    /\ file.state = "unreadable"
    /\ RelayExit(1)
    /\ UNCHANGED << hostVars, fwdVars, connVars, relayInputs, config, k8s_client, listCalls, report,
                    pod_name, running >>

\* Mutant of EmptyRejected: an empty override is taken as given.
EmptyAccepted(v) == FALSE

\* lib.rs:514, 523, 532: is_empty() on a given override.
EmptyRejected(v) == v = ""

\* Mutant of ApplyPod: --pod leaves the selector as it was.
ApplyPodKeepsSelector(c, pod) ==
    IF pod = None THEN c ELSE [c EXCEPT !.pod_name = pod]

\* lib.rs:513-520: --pod sets pod_name and clears pod_selector.
ApplyPod(c, pod) ==
    IF pod = None THEN c ELSE [c EXCEPT !.pod_name = pod, !.pod_selector = None]

\* lib.rs:522-529: --selector sets pod_selector and clears pod_name.
ApplySelector(c, selector) ==
    IF selector = None THEN c ELSE [c EXCEPT !.pod_selector = selector, !.pod_name = None]

\* lib.rs:531-537: --namespace replaces namespace.
ApplyNamespace(c, namespace) ==
    IF namespace = None THEN c ELSE [c EXCEPT !.namespace = namespace]

\* lib.rs:543-545: --remote-port replaces remote_port.
ApplyRemotePort(c, remote_port) ==
    IF remote_port = <<>> THEN c ELSE [c EXCEPT !.remote_port = remote_port[1]]

\* lib.rs:512-545: the overrides in the order the code applies them.
Merged ==
    ApplyRemotePort(
        ApplyNamespace(ApplySelector(ApplyPod(config, cli.pod), cli.selector), cli.namespace),
        cli.remote_port)

\* lib.rs:548: neither a pod name nor a selector.
NoTarget(c) == c.pod_name = None /\ c.pod_selector = None

\* lib.rs:514-517, 523-526, 532-535: an empty override; exit(1).
OverrideRejected ==
    /\ rpc = "override"
    /\ EmptyRejected(cli.pod) \/ EmptyRejected(cli.selector) \/ EmptyRejected(cli.namespace)
    /\ RelayExit(1)
    /\ UNCHANGED << hostVars, fwdVars, connVars, relayInputs, config, k8s_client, listCalls, report,
                    pod_name, running >>

\* lib.rs:548-553: the merged config names no target; exit(1).
OverrideInvalid ==
    /\ rpc = "override"
    /\ ~(EmptyRejected(cli.pod) \/ EmptyRejected(cli.selector) \/ EmptyRejected(cli.namespace))
    /\ NoTarget(Merged)
    /\ RelayExit(1)
    /\ UNCHANGED << hostVars, fwdVars, connVars, relayInputs, config, k8s_client, listCalls, report,
                    pod_name, running >>

\* lib.rs:512-557, 351-355: the merged config goes to start_port_forward, which
\* first settles the protocol.
OverrideOk ==
    /\ rpc = "override"
    /\ ~(EmptyRejected(cli.pod) \/ EmptyRejected(cli.selector) \/ EmptyRejected(cli.namespace))
    /\ ~NoTarget(Merged)
    /\ config' = Merged
    /\ protocol' = ProtocolFrom(ProtocolChoice(cli.protocol, config.protocol))
    /\ rpc' = "client"
    /\ UNCHANGED << hostVars, fwdVars, conn, pending, phase, chunk, lastLog, got, sent, tunnel,
                    relayInputs, k8s_client, listCalls, report, pod_name,
                    running, listener, conns, relayExit >>

\* lib.rs:365: Client::try_default() is Ok.
CreateClient ==
    /\ rpc = "client"
    /\ k8s_client' = TRUE
    /\ rpc' = "resolve"
    /\ UNCHANGED << hostVars, fwdVars, connVars, relayInputs, config, listCalls, report, pod_name,
                    running, listener, conns, relayExit >>

\* lib.rs:365, 557-560: Client::try_default() is Err; exit(1).
CreateClientFails ==
    /\ rpc = "client"
    /\ RelayExit(1)
    /\ UNCHANGED << hostVars, fwdVars, connVars, relayInputs, config, k8s_client, listCalls, report,
                    pod_name, running >>

\* Mutant of UsesName: a selector, when there is one, is resolved first.
UsesNameUnlessSelector(c) == c.pod_name # None /\ c.pod_selector = None

\* lib.rs:368: if let Some(name) = config.pod_name.
UsesName(c) == c.pod_name # None

\* lib.rs:368-370: the pod name is taken as it is.
ResolveByName ==
    /\ rpc = "resolve"
    /\ UsesName(config)
    /\ pod_name' = config.pod_name
    /\ rpc' = "handler"
    /\ UNCHANGED << hostVars, fwdVars, connVars, relayInputs, config, k8s_client, listCalls, report,
                    running, listener, conns, relayExit >>

\* Mutant of FirstPod: the last pod of the listing.
LastPod(items) == items[Len(items)]

\* lib.rs:229: pod_list.items[0].
FirstPod(items) == items[1]

\* lib.rs:219-227: the names the pods have are printed when there is more than one pod.
Reported(items) == IF Len(items) > 1 THEN SelectSeq(items, LAMBDA n : n # None) ELSE <<>>

\* lib.rs:213-217, 229-230: the listing is Err, or empty, or its first pod has no name.
ListingFails ==
    IF cluster.ok /\ cluster.items # <<>> THEN FirstPod(cluster.items) = None ELSE TRUE

\* lib.rs:371-375, 209-232: the listing answers at least one pod and the first one
\* has a name.
ResolveBySelector ==
    /\ rpc = "resolve"
    /\ ~UsesName(config) /\ config.pod_selector # None
    /\ ~ListingFails
    /\ listCalls' = listCalls + 1
    /\ report' = Reported(cluster.items)
    /\ pod_name' = FirstPod(cluster.items)
    /\ rpc' = "handler"
    /\ UNCHANGED << hostVars, fwdVars, connVars, relayInputs, config, k8s_client, running, listener,
                    conns, relayExit >>

\* What find_pod_by_selector printed before it returned Err.
ReportedOnFailure ==
    IF cluster.ok /\ cluster.items # <<>> THEN Reported(cluster.items) ELSE <<>>

\* Mutant of ResolveFails: the run goes on without a pod.
ResolveFailsGoesOn ==
    /\ rpc = "resolve"
    /\ ~UsesName(config) /\ config.pod_selector # None
    /\ ListingFails
    /\ listCalls' = listCalls + 1
    /\ report' = ReportedOnFailure
    /\ rpc' = "handler"
    /\ UNCHANGED << hostVars, fwdVars, connVars, relayInputs, config, k8s_client, pod_name, running,
                    listener, conns, relayExit >>

\* lib.rs:213, 215-217, 229-230, 373, 557-560: find_pod_by_selector is Err; exit(1).
ResolveFails ==
    /\ rpc = "resolve"
    /\ ~UsesName(config) /\ config.pod_selector # None
    /\ ListingFails
    /\ listCalls' = listCalls + 1
    /\ report' = ReportedOnFailure
    /\ RelayExit(1)
    /\ UNCHANGED << hostVars, fwdVars, connVars, relayInputs, config, k8s_client, pod_name, running >>

\* lib.rs:384-390: the Ctrl+C handler is installed.
InstallHandler ==
    /\ rpc = "handler"
    /\ rpc' = "bind"
    /\ UNCHANGED << hostVars, fwdVars, connVars, relayInputs, config, k8s_client, listCalls, report,
                    pod_name, running, listener, conns, relayExit >>

\* lib.rs:403: TcpListener::bind is Ok.
Bind ==
    /\ rpc = "bind"
    /\ listener' = TRUE
    /\ rpc' = "check"
    /\ UNCHANGED << hostVars, fwdVars, connVars, relayInputs, config, k8s_client, listCalls, report,
                    pod_name, running, conns, relayExit >>

\* lib.rs:403, 557-560: TcpListener::bind is Err; exit(1).
BindFails ==
    /\ rpc = "bind"
    /\ RelayExit(1)
    /\ UNCHANGED << hostVars, fwdVars, connVars, relayInputs, config, k8s_client, listCalls, report,
                    pod_name, running >>

\* lib.rs:405-406: running is true; the loop waits in accept().
LoopCheck ==
    /\ rpc = "check"
    /\ running
    /\ rpc' = "accept"
    /\ UNCHANGED << hostVars, fwdVars, connVars, relayInputs, config, k8s_client, listCalls, report,
                    pod_name, running, listener, conns, relayExit >>

\* lib.rs:405, 435, 561-562: running is false; start_port_forward and run() return
\* and the Runtime is dropped with the tasks it still holds.
LoopEnds ==
    /\ rpc = "check"
    /\ ~running
    /\ rpc' = "returned"
    /\ listener' = FALSE
    /\ conns' = Kill(conns)
    /\ UNCHANGED << hostVars, fwdVars, connVars, relayInputs, config, k8s_client, listCalls, report,
                    pod_name, running, relayExit >>

\* Mutant of NewTask: the task gets the remote port of the defaults.
NewTaskDefaultPort ==
    [state |-> "attach", pod |-> pod_name, namespace |-> config.namespace,
     remote_port |-> DefaultConfig.remote_port]

\* lib.rs:411-415, 417-424: what the spawned task is given: the pod name, the
\* namespace and the remote port of the run.
NewTask ==
    [state |-> "attach", pod |-> pod_name, namespace |-> config.namespace,
     remote_port |-> config.remote_port]

\* Mutant of Accept: the loop takes no client while a connection is attaching.
AcceptOnceAttached ==
    /\ rpc = "accept"
    /\ Len(conns) < MaxConns
    /\ \A c \in DOMAIN conns : conns[c].state # "attach"
    /\ conns' = Append(conns, NewTask)
    /\ rpc' = "check"
    /\ UNCHANGED << hostVars, fwdVars, connVars, relayInputs, config, k8s_client, listCalls, report,
                    pod_name, running, listener, relayExit >>

\* lib.rs:407-427: a client connected; its task is spawned with clones of the pod
\* name, the namespace and the remote port.
Accept ==
    /\ rpc = "accept"
    /\ Len(conns) < MaxConns
    /\ conns' = Append(conns, NewTask)
    /\ rpc' = "check"
    /\ UNCHANGED << hostVars, fwdVars, connVars, relayInputs, config, k8s_client, listCalls, report,
                    pod_name, running, listener, relayExit >>

\* lib.rs:429-431: accept() is Err; it is printed and the loop goes round.
AcceptFails ==
    /\ rpc = "accept"
    /\ rpc' = "check"
    /\ UNCHANGED << hostVars, fwdVars, connVars, relayInputs, config, k8s_client, listCalls, report,
                    pod_name, running, listener, conns, relayExit >>

\* The process has not ended and the Runtime is there.
Alive == rpc \notin {"idle", "usage", "exited", "returned"}

\* Task c can be polled.
TaskIn(c, state) == Alive /\ c \in DOMAIN conns /\ conns[c].state = state

\* Only task c moves.
TaskTo(c, state) ==
    /\ conns' = [conns EXCEPT ![c].state = state]
    /\ UNCHANGED << hostVars, fwdVars, connVars, relayInputs, rpc, config, k8s_client, listCalls,
                    report, pod_name, running, listener, relayExit >>

\* lib.rs:278-291: the session is attached with both handles.
TaskAttached(c) == TaskIn(c, "attach") /\ TaskTo(c, "relay")

\* Mutant of TaskTransportError: the error ends the run.
TaskTransportErrorFatal(c) ==
    /\ TaskIn(c, "attach")
    /\ RelayExit(1)
    /\ UNCHANGED << hostVars, fwdVars, connVars, relayInputs, config, k8s_client, listCalls, report,
                    pod_name, running >>

\* lib.rs:278-280, 290-291, 417-426: handle_native_connection returns Err; the
\* task prints it and ends.
TaskTransportError(c) == TaskIn(c, "attach") /\ TaskTo(c, "failed")

\* Mutant of TaskIoError: the error ends the run.
TaskIoErrorFatal(c) ==
    /\ TaskIn(c, "relay")
    /\ RelayExit(1)
    /\ UNCHANGED << hostVars, fwdVars, connVars, relayInputs, config, k8s_client, listCalls, report,
                    pod_name, running >>

\* lib.rs:303-311, 327-335, 341-347: a read or write fails; the loop breaks, the
\* connection is closed and the task returns Ok.
TaskIoError(c) == TaskIn(c, "relay") /\ TaskTo(c, "io_error")

\* lib.rs:298, 322, 341-347: a read returns Ok(0); the connection is closed.
TaskEof(c) == TaskIn(c, "relay") /\ TaskTo(c, "eof")

\* The handler of lib.rs:386-390 is installed and the process is alive.
HandlerSet == rpc \in {"bind", "check", "accept"}

\* lib.rs:387: the interrupt arrives; the handler thread clears the flag.
InterruptStore ==
    /\ HandlerSet
    /\ running
    /\ running' = FALSE
    /\ UNCHANGED << hostVars, fwdVars, connVars, relayInputs, rpc, config, k8s_client, listCalls,
                    report, pod_name, listener, conns, relayExit >>

\* Mutant of InterruptExit: the handler returns once the flag is cleared.
InterruptReturns ==
    /\ HandlerSet
    /\ ~running
    /\ UNCHANGED vars

\* lib.rs:388-389: the handler thread calls std::process::exit(0).
InterruptExit ==
    /\ HandlerSet
    /\ ~running
    /\ RelayExit(0)
    /\ UNCHANGED << hostVars, fwdVars, connVars, relayInputs, config, k8s_client, listCalls, report,
                    pod_name, running >>

RelayNext ==
    \/ ArgsAccepted \/ ArgsRejected
    \/ LoadConfigOk \/ LoadConfigDefaults \/ LoadConfigFails
    \/ OverrideRejected \/ OverrideInvalid \/ OverrideOk
    \/ CreateClient \/ CreateClientFails
    \/ ResolveByName \/ ResolveBySelector \/ ResolveFails
    \/ InstallHandler \/ Bind \/ BindFails
    \/ LoopCheck \/ LoopEnds \/ Accept \/ AcceptFails
    \/ \E c \in 1..MaxConns : TaskAttached(c)
    \/ \E c \in 1..MaxConns : TaskTransportError(c)
    \/ \E c \in 1..MaxConns : TaskIoError(c)
    \/ \E c \in 1..MaxConns : TaskEof(c)
    \/ InterruptStore \/ InterruptExit

RelaySpec == RelayInit /\ [][RelayNext]_vars

\* The handler thread, once it has cleared the flag, goes on to its exit call.
RelayLiveSpec == RelayInit /\ [][RelayNext]_vars /\ WF_vars(InterruptExit)

(***************************************************************************)
(* One run of the k8s_port_forward plugin: run() and                       *)
(* spawn_kubectl_port_forward() of src/plugins/k8s_port_forward/src/lib.rs.*)
(* Strings are sequences of characters; an Option<String> is <<>> for None *)
(* and << value >> for Some(value).                                        *)
(***************************************************************************)
\* Largest number of [[forward]] entries of a config file.
MaxForwards == 2
\* Largest number of interrupts the process receives in one run.
MaxInterrupts == 2

\* "pod", "svc" and "/" as their characters.
StrPod == <<112, 111, 100>>
StrSvc == <<115, 118, 99>>
StrSlash == <<47>>

\* lib.rs:15-23: the name, labels and type a [[forward]] entry can have
\* (names "a"; labels "a=b", "b").
PortForwards ==
    [name : {<<>>, << <<97>> >>},
     labels : {<<>>, << <<97, 61, 98>> >>, << <<98>> >>},
     type : {"pod", "service", "job"}]

RECURSIVE SeqsUpTo(_, _)
\* The sequences of at most n elements of S.
SeqsUpTo(S, n) ==
    IF n = 0 THEN { <<>> }
    ELSE LET shorter == SeqsUpTo(S, n - 1) IN
         shorter \cup { Append(q, x) : q \in shorter, x \in S }

\* lib.rs:54-58: load_config is None (no path, no file, no parse) or Some(cfg).
ForwardConfigs ==
    { [ok |-> FALSE, forward |-> <<>>] }
    \cup [ok : {TRUE}, forward : SeqsUpTo(PortForwards, MaxForwards)]

\* lib.rs:203-208, 216: --name is absent, or "", "a", "b".
NameFilters == {<<>>, << <<>> >>, << <<97>> >>, << <<98>> >>}

\* lib.rs:94, 141: `kubectl get` cannot run, or writes these lines ("pod/x",
\* "pod/y", an empty line); `kubectl port-forward` spawns or does not.
Kubectls ==
    [get : { [ok |-> FALSE, stdout |-> <<>>] }
           \cup [ok : {TRUE},
                 stdout : { <<>>,
                            << StrPod \o StrSlash \o <<120>> >>,
                            << <<>>, StrPod \o StrSlash \o <<120>>,
                               StrPod \o StrSlash \o <<121>> >> }],
     spawn : BOOLEAN]

fwdInputs == << cfg, name_filter, kubectl >>

\* The host called run() of the plugin.
FwdInit ==
    /\ HostInRun
    /\ ConnIdle
    /\ RelayIdle
    /\ cfg \in ForwardConfigs
    /\ name_filter \in NameFilters
    /\ kubectl \in Kubectls
    /\ fpc = "load_config"
    /\ forwards = <<>>
    /\ fwd = NoForward
    /\ target = <<>>
    /\ spawned = <<>>
    /\ child = "none"
    /\ handler = FALSE
    /\ signals = <<>>
    /\ interrupts = 0

\* lib.rs:236: labels.contains(name).
Contains(labels, name) ==
    \E k \in 0..(Len(labels) - Len(name)) : SubSeq(labels, k + 1, k + Len(name)) = name

\* lib.rs:220-225: the entries whose name is the filter.
ExactMatches(forward, name) == SelectSeq(forward, LAMBDA f : f.name = << name >>)

\* lib.rs:231-238: the entries whose labels contain the filter.
LabelMatches(forward, name) ==
    SelectSeq(forward, LAMBDA f : IF f.labels = <<>> THEN FALSE ELSE Contains(f.labels[1], name))

\* Mutant of Selected: the label matches come first.
SelectedLabelsFirst(forward, filter) ==
    IF filter = <<>> THEN forward
    ELSE IF LabelMatches(forward, filter[1]) # <<>> THEN LabelMatches(forward, filter[1])
    ELSE ExactMatches(forward, filter[1])

\* lib.rs:217-242: the forwards of the run.
Selected(forward, filter) ==
    IF filter = <<>> THEN forward
    ELSE IF ExactMatches(forward, filter[1]) # <<>> THEN ExactMatches(forward, filter[1])
    ELSE LabelMatches(forward, filter[1])

\* lib.rs:214, 285-287: there is no config; run() prints and returns.
FwdLoadNone ==
    /\ fpc = "load_config"
    /\ ~cfg.ok
    /\ fpc' = "returned"
    /\ UNCHANGED << hostVars, connVars, relayVars, fwdInputs, forwards, fwd, target, spawned,
                    child, handler, signals, interrupts >>

\* lib.rs:214-242: the config is there; the forwards are selected.
FwdLoadSome ==
    /\ fpc = "load_config"
    /\ cfg.ok
    /\ forwards' = Selected(cfg.forward, name_filter)
    /\ fpc' = "selected"
    /\ UNCHANGED << hostVars, connVars, relayVars, fwdInputs, fwd, target, spawned, child,
                    handler, signals, interrupts >>

\* lib.rs:243-248: nothing is selected; run() prints and returns.
FwdNoneSelected ==
    /\ fpc = "selected"
    /\ forwards = <<>>
    /\ fpc' = "returned"
    /\ UNCHANGED << hostVars, connVars, relayVars, fwdInputs, forwards, fwd, target, spawned,
                    child, handler, signals, interrupts >>

\* lib.rs:249-282: the first forward goes to spawn_kubectl_port_forward.
FwdUseFirst ==
    /\ fpc = "selected"
    /\ forwards # <<>>
    /\ fwd' = forwards[1]
    /\ fpc' = "kind"
    /\ UNCHANGED << hostVars, connVars, relayVars, fwdInputs, forwards, target, spawned, child,
                    handler, signals, interrupts >>

\* lib.rs:61-68: the kind of a type ("pod", "svc"), <<>> for an unknown type.
Kind(type) ==
    IF type = "pod" THEN StrPod ELSE IF type = "service" THEN StrSvc ELSE <<>>

\* lib.rs:64-67: unknown type; spawn_kubectl_port_forward returns.
FwdUnknownType ==
    /\ fpc = "kind"
    /\ Kind(fwd.type) = <<>>
    /\ fpc' = "returned"
    /\ UNCHANGED << hostVars, connVars, relayVars, fwdInputs, forwards, fwd, target, spawned,
                    child, handler, signals, interrupts >>

\* lib.rs:76-79: a name and no labels; the target is kind/name.
FwdTargetByName ==
    /\ fpc = "kind"
    /\ Kind(fwd.type) # <<>>
    /\ fwd.name # <<>> /\ fwd.labels = <<>>
    /\ target' = << Kind(fwd.type) \o StrSlash \o fwd.name[1] >>
    /\ fpc' = "spawn"
    /\ UNCHANGED << hostVars, connVars, relayVars, fwdInputs, forwards, fwd, spawned, child,
                    handler, signals, interrupts >>

\* lib.rs:96-100: the lines of the output that are not empty.
Resources(stdout) == SelectSeq(stdout, LAMBDA line : line # <<>>)

\* lib.rs:80-123: labels; `kubectl get` answers resources and the first is the target.
FwdTargetByLabels ==
    /\ fpc = "kind"
    /\ Kind(fwd.type) # <<>>
    /\ fwd.labels # <<>>
    /\ kubectl.get.ok
    /\ Resources(kubectl.get.stdout) # <<>>
    /\ target' = << Resources(kubectl.get.stdout)[1] >>
    /\ fpc' = "spawn"
    /\ UNCHANGED << hostVars, connVars, relayVars, fwdInputs, forwards, fwd, spawned, child,
                    handler, signals, interrupts >>

\* lib.rs:102-104, 124-127: `kubectl get` fails or answers nothing;
\* spawn_kubectl_port_forward returns.
FwdListFails ==
    /\ fpc = "kind"
    /\ Kind(fwd.type) # <<>>
    /\ fwd.labels # <<>>
    /\ ~(kubectl.get.ok /\ Resources(kubectl.get.stdout) # <<>>)
    /\ fpc' = "returned"
    /\ UNCHANGED << hostVars, connVars, relayVars, fwdInputs, forwards, fwd, target, spawned,
                    child, handler, signals, interrupts >>

\* lib.rs:130-133: neither name nor labels; spawn_kubectl_port_forward returns.
FwdNoTarget ==
    /\ fpc = "kind"
    /\ Kind(fwd.type) # <<>>
    /\ fwd.name = <<>> /\ fwd.labels = <<>>
    /\ fpc' = "returned"
    /\ UNCHANGED << hostVars, connVars, relayVars, fwdInputs, forwards, fwd, target, spawned,
                    child, handler, signals, interrupts >>

\* lib.rs:136-153: cmd.spawn() is Ok; the child runs.
FwdSpawnOk ==
    /\ fpc = "spawn"
    /\ kubectl.spawn
    /\ child' = "running"
    /\ spawned' = Append(spawned, fwd)
    /\ fpc' = "set_handler"
    /\ UNCHANGED << hostVars, connVars, relayVars, fwdInputs, forwards, fwd, target, handler,
                    signals, interrupts >>

\* lib.rs:180-182: cmd.spawn() is Err; spawn_kubectl_port_forward returns.
FwdSpawnFails ==
    /\ fpc = "spawn"
    /\ ~kubectl.spawn
    /\ fpc' = "returned"
    /\ UNCHANGED << hostVars, connVars, relayVars, fwdInputs, forwards, fwd, target, spawned,
                    child, handler, signals, interrupts >>

\* lib.rs:153-171: the Ctrl-C handler is installed, with the child's id.
FwdSetHandler ==
    /\ fpc = "set_handler"
    /\ handler' = TRUE
    /\ fpc' = "wait"
    /\ UNCHANGED << hostVars, connVars, relayVars, fwdInputs, forwards, fwd, target, spawned,
                    child, signals, interrupts >>

\* The kubectl child ends, of itself or of a signal.
FwdChildExits ==
    /\ child = "running"
    /\ child' = "exited"
    /\ UNCHANGED << hostVars, connVars, relayVars, fwdInputs, fpc, forwards, fwd, target,
                    spawned, handler, signals, interrupts >>

\* lib.rs:173-178: child.wait() returns once the child has exited; run() returns.
FwdWaitReturns ==
    /\ fpc = "wait"
    /\ child = "exited"
    /\ fpc' = "returned"
    /\ UNCHANGED << hostVars, connVars, relayVars, fwdInputs, forwards, fwd, target, spawned,
                    child, handler, signals, interrupts >>

\* The process of the plugin's run has not ended.
FwdAlive == fpc \notin {"idle", "returned", "killed"}

\* What libc::kill(child_id, SIGTERM) reaches: the running child, the child that
\* has exited and is not yet waited for, or the id of a child already waited for.
SignalTarget ==
    IF child = "running" THEN "child"
    ELSE IF fpc = "wait" THEN "exited"
    ELSE "stale"

\* lib.rs:156-162: an interrupt with the handler installed: SIGTERM to child_id.
\* The handler stays installed after wait() until the process ends.
FwdInterruptHandled ==
    /\ handler
    /\ fpc \in {"wait", "returned"}
    /\ interrupts < MaxInterrupts
    /\ interrupts' = interrupts + 1
    /\ signals' = Append(signals, SignalTarget)
    /\ UNCHANGED << hostVars, connVars, relayVars, fwdInputs, fpc, forwards, fwd, target,
                    spawned, child, handler >>

\* No handler is installed: the interrupt has SIGINT's default effect and the
\* process is killed; nothing is sent to a child.
FwdInterruptDefault ==
    /\ ~handler
    /\ FwdAlive
    /\ interrupts < MaxInterrupts
    /\ interrupts' = interrupts + 1
    /\ fpc' = "killed"
    /\ UNCHANGED << hostVars, connVars, relayVars, fwdInputs, forwards, fwd, target, spawned,
                    child, handler, signals >>

FwdNext ==
    \/ FwdLoadNone \/ FwdLoadSome
    \/ FwdNoneSelected \/ FwdUseFirst
    \/ FwdUnknownType \/ FwdTargetByName \/ FwdTargetByLabels \/ FwdListFails \/ FwdNoTarget
    \/ FwdSpawnOk \/ FwdSpawnFails
    \/ FwdSetHandler
    \/ FwdChildExits \/ FwdWaitReturns
    \/ FwdInterruptHandled \/ FwdInterruptDefault

FwdSpec == FwdInit /\ [][FwdNext]_vars

(***************************************************************************)
(* Properties of the host, checked under Spec.                             *)
(***************************************************************************)
Loaded(k) == inst[k] # "none"

LoadedEntries == { k \in DOMAIN dir : Loaded(k) }

StillLoaded(k) == lib[k] = "open" /\ inst[k] = "alive"

\* The discovery loop stopped at an entry that did not open.
AbortedByLoad == pc \in {"unwind", "exited"} /\ i <= Len(dir) /\ dir[i].kind = "bad"

RECURSIVE OkNames(_)
OkNames(d) ==
    IF d = <<>> THEN <<>>
    ELSE (IF Head(d).kind = "ok" THEN << Head(d).name >> ELSE <<>>) \o OkNames(Tail(d))

\* C1: a candidate module that does not open, or lacks create_plugin, is skipped:
\* the host never aborts on it, and once discovery is over every module that is a
\* plugin is loaded and has its subcommand.
C1_LoadFailureNeverFatal ==
    /\ ~AbortedByLoad
    /\ (pc # "discover" =>
          \A k \in DOMAIN dir : dir[k].kind = "ok" =>
              Loaded(k) /\ InSeq(dir[k].name, subcommands))

\* C2: when two loaded capabilities report the same name, no run() is ever called
\* and the process ends with a failure status.
C2_DuplicateNameFatal ==
    HasDuplicate(subcommands) =>
        /\ runs = <<>>
        /\ (pc = "exited" => exitCode # 0)

\* C3: whenever a capability instance is alive, the module it came from is open.
C3_ModuleOutlivesInstance ==
    \A k \in DOMAIN dir : inst[k] = "alive" => lib[k] = "open"

\* C4: while some capability's run() is running, every loaded capability (module and
\* instance) is still loaded.
C4_LoadedWhileRunning ==
    pc = "running" => \A k \in LoadedEntries : StillLoaded(k)

\* C5 as stated: of two released capabilities, the one loaded later is released first.
C5_ReleasedInReverseLoadOrder ==
    \A p, q \in DOMAIN released :
        (p < q /\ released[p].k # released[q].k) => released[p].k > released[q].k

\* C5 as amended: of two released capabilities, the one loaded first is released
\* first (both its module and its instance).
C5_ReleasedInLoadOrder ==
    \A p, q \in DOMAIN released :
        (p < q /\ released[p].k # released[q].k) => released[p].k < released[q].k

\* Two capabilities were loaded and main() returned: both are released.
C5_Witness ==
    /\ pc = "exited" /\ exitKind = "main_return"
    /\ \E a, b \in LoadedEntries :
          /\ a < b
          /\ lib[a] = "closed" /\ inst[a] = "dropped"
          /\ lib[b] = "closed" /\ inst[b] = "dropped"

\* The dispatch loop was reached with the subcommand of a loaded capability.
Dispatched ==
    /\ ~args.list
    /\ InSeq(args.sub, subcommands)
    /\ \/ pc \in {"running", "returning"}
       \/ pc = "exited" /\ exitKind \in {"main_return", "plugin_exit"}

\* C6: run() is called at most once in a host run, only without --list-plugins, on a
\* capability whose name is the subcommand given and with that subcommand's
\* arguments; and it is called once the subcommand of a loaded capability is
\* dispatched.
C6_DispatchExactlyOne ==
    /\ Len(runs) <= 1
    /\ \A r \in DOMAIN runs :
          /\ ~args.list
          /\ Loaded(runs[r].k)
          /\ dir[runs[r].k].name = args.sub
          /\ runs[r].args = args.subArgs
    /\ (Dispatched => Len(runs) = 1)

\* Two capabilities were loaded, the second one's subcommand was given and its run()
\* returned.
C6_Witness ==
    /\ pc = "exited" /\ exitKind = "main_return"
    /\ Cardinality(LoadedEntries) = 2
    /\ ~HasDuplicate(subcommands)
    /\ Len(runs) = 1
    /\ \E k \in LoadedEntries : k < runs[1].k

\* C7: with --list-plugins no run() is called and the dispatch loop is never
\* entered, whatever subcommand is on the command line.
C7_ListNeverDispatches ==
    args.list => (runs = <<>> /\ pc \notin {"dispatch", "running"})

\* --list-plugins together with the subcommand of a loaded capability: the table was
\* printed and main() returned.
C7_Witness ==
    /\ args.list
    /\ InSeq(args.sub, subcommands)
    /\ rows # <<>>
    /\ pc = "exited" /\ exitKind = "main_return"

RECURSIVE OkEntries(_, _)
OkEntries(d, k) ==
    IF k > Len(d) THEN <<>>
    ELSE (IF d[k].kind = "ok" THEN << k >> ELSE <<>>) \o OkEntries(d, k + 1)

\* A table row that carries the declared fields of module m (the description whole,
\* or cut and ended by the ellipsis when it is longer than the column).
RowCarries(row, m) ==
    /\ row.name = m.name
    /\ row.version = m.version
    /\ \/ row.description = m.description
       \/ /\ ByteLen(m.description) > DescWidth
          /\ \E n \in 0..Len(m.description) :
                row.description = SubSeq(m.description, 1, n) \o Ellipsis

\* The --list-plugins branch was taken and the process has ended.
ListDone ==
    /\ args.list
    /\ pc = "exited"
    /\ exitKind # "clap_error"
    /\ ~AbortedByLoad

\* C8: with pairwise distinct names, the composed CLI has one subcommand per loaded
\* capability and none for a skipped module, and --list-plugins prints one row per
\* loaded capability with its name, version and description.
C8_OneSubcommandAndRowPerCapability ==
    ~HasDuplicate(OkNames(dir)) =>
        /\ (pc # "discover" /\ ~AbortedByLoad => subcommands = OkNames(dir))
        /\ (ListDone =>
              /\ Len(rows) = Len(OkEntries(dir, 1))
              /\ \A r \in DOMAIN rows : RowCarries(rows[r], dir[OkEntries(dir, 1)[r]]))

\* C9: without subcommand and without --list-plugins, the usage text is printed and
\* the process ends with a non-zero status.
C9_NoSubcommandExitsNonZero ==
    (pc = "exited" /\ exitKind = "main_return" /\ ~args.list /\ args.sub = NoSub) =>
        (usage /\ exitCode # 0)

\* The last three characters of a rendered description are the ellipsis.
EndsWithEllipsis(t) == Len(t) >= 3 /\ SubSeq(t, Len(t) - 2, Len(t)) = Ellipsis

\* C24: every printed row shows a description of at most 32 characters unchanged and
\* a longer one cut to at most 32 characters ending with the ellipsis; and printing
\* the next row never panics.
C24_DescriptionFitsColumn ==
    /\ \A r \in DOMAIN rows :
          LET description == dir[OkEntries(dir, 1)[r]].description IN
          /\ Len(description) <= DescWidth => rows[r].description = description
          /\ Len(description) > DescWidth =>
                /\ Len(rows[r].description) <= DescWidth
                /\ EndsWithEllipsis(rows[r].description)
    /\ ~ENABLED ListRowPanics

(***************************************************************************)
(* Properties of one relayed connection, checked under ConnSpec.           *)
(***************************************************************************)
IsPrefix(a, b) == Len(a) <= Len(b) /\ SubSeq(b, 1, Len(a)) = a

\* C10: on both directions and under every protocol the bytes written to the peer
\* are the bytes read: what is written is always a prefix of what was read, at the
\* top of a copy loop everything read has been written, and between a read and its
\* write exactly the chunk just read is missing -- whatever the classifier made of it.
C10_ForwardedBytesUnchanged ==
    \A d \in Directions :
        /\ IsPrefix(sent[d], got[d])
        /\ (conn = "relay" /\ phase[d] = "read" => sent[d] = got[d])
        /\ (conn = "relay" /\ phase[d] = "write" => got[d] = sent[d] \o chunk[d])

\* Under Http a request chunk that is no HTTP message (invalid UTF-8, rendered as
\* Tcp) and a response chunk that is one have both been written whole; under
\* Postgres it is a query chunk and a chunk too short for a header.
C10_Witness ==
    /\ conn = "relay"
    /\ phase = [d \in Directions |-> "read"]
    /\ \/ /\ protocol = "Http"
          /\ sent["request"] = <<255, 10>>
          /\ lastLog["request"][1].kind = "TCP Message"
          /\ sent["response"] = <<71, 69, 84, 32, 47>>
          /\ lastLog["response"][1].kind = "HTTP Message"
       \/ /\ protocol = "Postgres"
          /\ sent["request"] = <<81, 0, 0, 0, 6, 83, 0>>
          /\ lastLog["request"] = << Line("PostgreSQL Message", "request", 0, <<>>),
                                     Line("Query", "", 0, <<83>>) >>
          /\ sent["response"] = <<255, 10>>

\* C11: the connection ends at the step in which either copy loop finishes, and from
\* then on nothing is read or written on either direction; so what the tunnel still
\* held when the client -> tunnel loop saw EOF is never delivered.
C11_EndsWhenEitherLoopFinishes ==
    [][ /\ ((\E d \in Directions : phase'[d] = "done") => conn' = "closed")
        /\ (conn = "closed" => UNCHANGED << pending, chunk, got, sent, phase >>) ]_vars

\* The client -> tunnel loop read EOF after forwarding all it got, while the tunnel
\* still held bytes of which none reached the client.
C11_Witness ==
    /\ conn = "closed"
    /\ phase["request"] = "done" /\ phase["response"] = "read"
    /\ pending["request"] = <<>> /\ got["request"] # <<>> /\ sent["request"] = got["request"]
    /\ pending["response"] # <<>> /\ sent["response"] = <<>>

\* C14: a connection whose exec was refused or whose session lacks a handle fails
\* with neither copy loop started and no byte read, logged or written; a connection
\* relays (or has relayed) only when both tunnel halves were obtained.
C14_NoRelayWithoutBothHalves ==
    /\ (tunnel \in {"refused", "missing"} => conn = "failed")
    /\ (conn = "failed" =>
          \A d \in Directions :
              /\ phase[d] = "read"
              /\ got[d] = <<>> /\ sent[d] = <<>> /\ chunk[d] = <<>> /\ lastLog[d] = <<>>)
    /\ (conn \in {"relay", "closed"} => tunnel = "both")

\* The session came without a handle although both peers had bytes to deliver.
C14_Witness ==
    /\ conn = "failed" /\ tunnel = "missing"
    /\ \A d \in Directions : pending[d] # <<>>

\* C16: on each direction, reading only moves bytes from the head of the source to
\* the end of what was read; a read happens only when all that was read before has
\* been written; and what is written only grows and stays a prefix of what was read.
C16_ChunksInReadOrder ==
    [][ \A d \in Directions :
            /\ got'[d] \o pending'[d] = got[d] \o pending[d]
            /\ (got'[d] # got[d] => sent[d] = got[d] /\ IsPrefix(got[d], got'[d]))
            /\ IsPrefix(sent[d], sent'[d])
            /\ IsPrefix(sent'[d], got'[d]) ]_vars

\* A direction has read and written at least two chunks and its source has more.
C16_Witness ==
    \E d \in Directions :
        /\ conn = "relay" /\ phase[d] = "read"
        /\ chunk[d] # <<>> /\ Len(sent[d]) > Len(chunk[d])
        /\ sent[d] = got[d]
        /\ pending[d] # <<>>

(***************************************************************************)
(* Properties of one run of the relay capability, checked under RelaySpec. *)
(***************************************************************************)
\* C12 as stated: the interrupt never closes an open connection, i.e. no connection
\* task is ever ended by anything but its own attach or copy loops.
C12_InterruptKeepsConnections ==
    \A c \in DOMAIN conns : conns[c].state # "killed"

\* C13 as stated: a transport failure ends the run with a failure status and no
\* connection is accepted once it has happened.
C13_TransportFailureEndsRun ==
    \A c \in DOMAIN conns :
        conns[c].state = "failed" =>
            /\ rpc = "exited" /\ relayExit # 0
            /\ \A o \in DOMAIN conns : o <= c

\* C13 as amended: a transport failure happens on an accepted connection, while the
\* listener is bound, and ends that connection only: when, without an interrupt, a
\* connection leaves its attach without a tunnel, it has failed, the listener stays
\* bound, the accept loop stays where it is and every other connection is untouched.
C13_TransportFailureEndsOneConnection ==
    [][ \A c \in DOMAIN conns :
            (running /\ conns[c].state = "attach" /\ conns'[c].state \notin {"attach", "relay"}) =>
                /\ conns'[c].state = "failed"
                /\ listener /\ listener'
                /\ rpc' = rpc /\ rpc \in {"check", "accept"}
                /\ \A o \in DOMAIN conns \ {c} : conns'[o] = conns[o] ]_vars

\* The first connection failed in its attach; a second one is relaying and the loop
\* waits in accept().
C13_Witness ==
    /\ Len(conns) = 2
    /\ conns[1].state = "failed" /\ conns[2].state = "relay"
    /\ rpc = "accept" /\ listener /\ running

\* C15: when, without an interrupt, a relaying connection ends, it ended by its own
\* EOF or I/O error; the listener stays bound, the accept loop stays where it is and
\* every other connection is untouched.
C15_IoErrorEndsOneConnection ==
    [][ \A c \in DOMAIN conns :
            (running /\ conns[c].state = "relay" /\ conns'[c].state # "relay") =>
                /\ conns'[c].state \in {"io_error", "eof"}
                /\ listener /\ listener'
                /\ rpc' = rpc /\ rpc \in {"check", "accept"}
                /\ \A o \in DOMAIN conns \ {c} : conns'[o] = conns[o] ]_vars

\* The first connection ended on an I/O error; a second one is relaying and the loop
\* waits in accept().
C15_Witness ==
    /\ Len(conns) = 2
    /\ conns[1].state = "io_error" /\ conns[2].state = "relay"
    /\ rpc = "accept" /\ listener /\ running

\* The client exists and the resolution step is over.
PastResolve == k8s_client /\ rpc # "resolve"

\* C17: when the merged config has a pod name, the resolved pod is that name and no
\* listing call was made and nothing was reported, whether or not it also has a
\* selector.
C17_ExplicitNameNoListing ==
    (PastResolve /\ config.pod_name # None) =>
        /\ pod_name = config.pod_name
        /\ listCalls = 0
        /\ report = <<>>

\* The config file carries both a pod name and a selector, no override is given, and
\* the run is listening.
C17_Witness ==
    /\ rpc = "accept"
    /\ cli.pod = None /\ cli.selector = None
    /\ config.pod_name = "p1" /\ config.pod_selector = "app=x"
    /\ pod_name = "p1"

\* C18: when the merged config has only a selector, one listing call is made; if it
\* fails or answers no pod the run ends with status 1, unresolved and never
\* listening; one pod: that pod; several pods: the first of the listing, all of them
\* reported, and every connection goes to the first (the pods named here have a name).
C18_SelectorTakesFirstPod ==
    (PastResolve /\ config.pod_name = None) =>
        /\ listCalls = 1
        /\ (~cluster.ok \/ cluster.items = <<>>) =>
              /\ rpc = "exited" /\ relayExit = 1
              /\ pod_name = None /\ ~listener /\ conns = <<>>
        /\ (cluster.ok /\ Len(cluster.items) = 1 /\ cluster.items[1] # None) =>
              /\ pod_name = cluster.items[1]
              /\ report = <<>>
        /\ (cluster.ok /\ Len(cluster.items) > 1 /\ cluster.items[1] # None) =>
              /\ pod_name = cluster.items[1]
              /\ report = cluster.items
              /\ \A c \in DOMAIN conns : conns[c].pod = cluster.items[1]

\* The selector matched three pods and a connection to the first one is relaying.
C18_Witness ==
    /\ config.pod_name = None /\ config.pod_selector # None
    /\ cluster.ok /\ Len(cluster.items) = 3
    /\ Len(conns) >= 1 /\ conns[1].state = "relay" /\ conns[1].pod = cluster.items[1]

\* The config the overrides are applied to.
Base == IF file.state = "ok" THEN file.content ELSE DefaultConfig

\* Neither the config nor the command line names a pod or a selector.
NeitherGiven == NoTarget(Base) /\ cli.pod = None /\ cli.selector = None

\* One of --pod, --selector, --namespace is given as the empty string.
EmptyGiven == cli.pod = "" \/ cli.selector = "" \/ cli.namespace = ""

\* C19: when neither a pod nor a selector is given, or an override is empty, the run
\* gets no further than the validation: it ends with status 1 with no client made,
\* no listing call, no pod resolved, no listener bound, no connection accepted.
C19_NoTargetOrEmptyOverrideExits1 ==
    ((NeitherGiven \/ EmptyGiven) /\ rpc \notin {"args", "usage", "load_config", "override"}) =>
        /\ rpc = "exited" /\ relayExit = 1
        /\ ~k8s_client /\ listCalls = 0 /\ pod_name = None
        /\ ~listener /\ conns = <<>>

\* A config file without pod name or selector, --namespace alone on the command
\* line: the run has ended.
C19_Witness ==
    /\ file.state = "ok" /\ NeitherGiven /\ ~EmptyGiven
    /\ cli.namespace = "ns2"
    /\ rpc = "exited" /\ relayExit = 1

\* start_port_forward was entered and the process runs.
Started == rpc \in {"client", "resolve", "handler", "bind", "check", "accept"}

\* C20: when --pod or --selector is given, the config that reaches the resolution
\* has exactly one of pod name and selector: the --selector value alone when
\* --selector is given (also together with --pod), otherwise the --pod value alone;
\* the config file's values are gone.
C20_OverridesClearEachOther ==
    (Started /\ (cli.pod # None \/ cli.selector # None)) =>
        /\ (config.pod_name = None) # (config.pod_selector = None)
        /\ cli.selector # None =>
              config.pod_selector = cli.selector /\ config.pod_name = None
        /\ cli.selector = None =>
              config.pod_name = cli.pod /\ config.pod_selector = None

\* Both flags are given over a config file that has both values; the resolution is
\* about to start.
C20_Witness ==
    /\ rpc = "resolve"
    /\ cli.pod = "p2" /\ cli.selector = "app=y"
    /\ file.state = "ok" /\ file.content.pod_name = "p1" /\ file.content.pod_selector = "app=x"
    /\ config.pod_name = None /\ config.pod_selector = "app=y"

\* C21: a step of load_config with no file leaves the built-in defaults as the
\* config and the run goes on to the overrides; with a file that does not read or
\* parse it ends the run with status 1, no client made, no listing call, no pod
\* resolved, no listener bound, no connection accepted.
C21_MissingFileDefaultsBadFileExits ==
    [][ rpc = "load_config" =>
          /\ file.state = "missing" =>
                /\ rpc' = "override"
                /\ config' = [namespace |-> "default", pod_name |-> None,
                              pod_selector |-> None, remote_port |-> 80,
                              protocol |-> << StrTcp >>]
          /\ file.state = "unreadable" =>
                /\ rpc' = "exited" /\ relayExit' = 1
                /\ ~k8s_client' /\ listCalls' = 0 /\ pod_name' = None
                /\ ~listener' /\ conns' = <<>> ]_vars

\* No config file, --pod on the command line: the run is accepting connections in
\* the default namespace.
C21_Witness ==
    /\ file.state = "missing"
    /\ rpc = "accept"
    /\ config.namespace = "default" /\ pod_name = "p2"

\* Two values that differ at most in the case of their ASCII letters.
SameIgnoringCase(a, b) ==
    /\ Len(a) = Len(b)
    /\ \A x \in 1..Len(a) :
          \/ a[x] = b[x]
          \/ a[x] \in 65..90 /\ a[x] + 32 = b[x]
          \/ b[x] \in 65..90 /\ b[x] + 32 = a[x]

\* The protocol a value names.
Named(value) ==
    IF SameIgnoringCase(value, StrHttp) THEN "Http"
    ELSE IF SameIgnoringCase(value, StrPostgres) \/ SameIgnoringCase(value, StrPostgresql)
         THEN "Postgres"
    ELSE "Tcp"

\* The protocol of the run by the rule: the override, else the config, else tcp.
Effective ==
    Named(IF cli.protocol # <<>> THEN cli.protocol[1]
          ELSE IF Base.protocol # <<>> THEN Base.protocol[1]
          ELSE StrTcp)

\* The --protocol value is none of the three the option lists, as written.
OverrideNotListed ==
    cli.protocol # <<>> /\ cli.protocol[1] \notin {StrTcp, StrHttp, StrPostgres}

\* C22 as stated: no value of the protocol raises an error, and the protocol of the
\* run is the override, else the config value, else tcp, whatever its case.
C22_AnyValueAnyCase ==
    /\ rpc # "usage"
    /\ Started => protocol = Effective

\* C22, amended: an override that is not exactly tcp, http or postgres is a usage
\* error (status 2) before the capability runs; otherwise the protocol of the run is
\* the override, else the config value matched whatever its case (anything
\* unrecognised being Tcp), else tcp.
C22_ListedOverrideElseConfigAnyCase ==
    /\ rpc # "args" => (rpc = "usage" <=> OverrideNotListed)
    /\ rpc = "usage" =>
          /\ relayExit = 2
          /\ ~k8s_client /\ listCalls = 0 /\ pod_name = None /\ ~listener /\ conns = <<>>
    /\ Started => protocol = Effective

\* The config file says PostgreSQL, there is no override: the run is under Postgres.
C22_Witness ==
    /\ Started
    /\ cli.protocol = <<>>
    /\ file.state = "ok" /\ file.content.protocol = << StrMixedPostgresql >>
    /\ protocol = "Postgres"

\* A connection that has ended.
Ended(c) == c.state \in {"failed", "io_error", "eof", "killed"}

\* C23 as stated: a failed accept ends the process, and a connection that has ended
\* never attaches or relays again.
C23_FailureEndsConnectionOrProcess ==
    [][ /\ (rpc = "accept" /\ rpc' # "accept" /\ conns' = conns) =>
              rpc' \in {"exited", "returned"}
        /\ \A c \in DOMAIN conns : Ended(conns[c]) => conns'[c] = conns[c] ]_vars

\* C29: whatever the open connections are doing, the loop goes back to accept while
\* running is set and a client that connects is accepted.
C29_AcceptNeverWaits ==
    /\ (rpc = "check" /\ running) => ENABLED LoopCheck
    /\ (rpc = "accept" /\ Len(conns) < MaxConns) => ENABLED Accept

\* A second client was accepted while the first connection was still attaching.
C29_Witness ==
    /\ Len(conns) = 2
    /\ conns[1].state = "attach" /\ conns[2].state = "attach"
    /\ rpc = "check"

\* C30: a listener or a connection exists only with a pod resolved; when the
\* listing is an error, or empty, or its first pod has no name, the run has ended
\* with status 1, nothing bound and nothing accepted.
C30_ListenerOnlyAfterResolution ==
    /\ (listener \/ conns # <<>>) => (k8s_client /\ pod_name # None)
    /\ (PastResolve /\ config.pod_name = None
          /\ (~cluster.ok \/ cluster.items = <<>> \/ cluster.items[1] = None)) =>
          /\ rpc = "exited" /\ relayExit = 1
          /\ pod_name = None /\ ~listener /\ conns = <<>>

\* The selector's listing began with a pod without a name: the run ended with
\* status 1 after the one listing call.
C30_Witness ==
    /\ rpc = "exited" /\ relayExit = 1
    /\ listCalls = 1
    /\ cluster.ok /\ cluster.items # <<>> /\ cluster.items[1] = None
    /\ ~listener /\ conns = <<>>

\* C32: at most one listing call is made in a run; every accepted connection's
\* tunnel goes to the pod, namespace and remote port the run resolved before it
\* listened; once a connection is accepted no listing call is made and the resolved
\* pod does not change.
C32_ResolvedOnceForAllConnections ==
    /\ [](/\ listCalls <= 1
          /\ \A c \in DOMAIN conns :
                /\ pod_name # None
                /\ conns[c].pod = pod_name
                /\ conns[c].namespace = config.namespace
                /\ conns[c].remote_port = config.remote_port)
    /\ [][ (listener \/ conns # <<>>) =>
              /\ listCalls' = listCalls
              /\ pod_name' = pod_name
              /\ config' = config ]_vars

\* A selector resolved by one listing call, --remote-port given: two connections
\* were accepted for the same pod and port.
C32_Witness ==
    /\ listCalls = 1
    /\ cli.remote_port = << 9000 >>
    /\ Len(conns) = 2
    /\ conns[1].pod = pod_name /\ conns[2].pod = pod_name
    /\ conns[1].remote_port = 9000 /\ conns[2].remote_port = 9000

\* The process is over with status 0: exit(0), or main() returned after run().
EndedWithStatus0 == rpc = "returned" \/ (rpc = "exited" /\ relayExit = 0)

C25_ShortPostgresChunkAsTcp ==
    \A d \in Directions :
        (protocol = "Postgres" /\ chunk[d] # <<>> /\ Len(chunk[d]) < PgHeaderLen) =>
            lastLog[d] = log_tcp_message(d, chunk[d])

\* C26: under Postgres the record of a chunk of at least 5 bytes with tag Q is the
\* message header line and a Query line whose text is the bytes after the header
\* without the trailing NUL.
C26_QueryChunkLogged ==
    \A d \in Directions :
        (protocol = "Postgres" /\ Len(chunk[d]) >= PgHeaderLen /\ chunk[d][1] = 81) =>
            lastLog[d] = << Line("PostgreSQL Message", d, 0, <<>>),
                            Line("Query", "", 0,
                                 TrimEndNul(SubSeq(chunk[d], PgHeaderLen + 1, Len(chunk[d])))) >>

\* "GET ", "POST ", "PUT ", "DELETE ", "HTTP/" as the claim lists them.
ClaimedPrefixes ==
    { <<71, 69, 84, 32>>, <<80, 79, 83, 84, 32>>, <<80, 85, 84, 32>>,
      <<68, 69, 76, 69, 84, 69, 32>>, <<72, 84, 84, 80, 47>> }

\* pat occurs in data at offset e and at no smaller offset.
FirstAt(data, pat, e) ==
    /\ e + Len(pat) <= Len(data)
    /\ SubSeq(data, e + 1, e + Len(pat)) = pat
    /\ \A f \in 0..(e - 1) : SubSeq(data, f + 1, f + Len(pat)) # pat

Occurs(data, pat) == \E e \in 0..Len(data) : FirstAt(data, pat, e)

RECURSIVE JoinCrLf(_)
JoinCrLf(ls) ==
    IF ls = <<>> THEN <<>>
    ELSE IF Len(ls) = 1 THEN ls[1]
    ELSE ls[1] \o <<13, 10>> \o JoinCrLf(Tail(ls))

\* rec is: the message line, "Headers:", one line per header line of headers, and the
\* body block exactly when body is not empty.
IsSplitRecord(rec, d, headers, body) ==
    LET nb == IF body = <<>> THEN 0 ELSE 2
        nh == Len(rec) - 2 - nb
    IN  /\ nh >= 1
        /\ rec[1] = Line("HTTP Message", d, 0, <<>>)
        /\ rec[2] = Line("Headers", "", 0, <<>>)
        /\ \A x \in 3..(2 + nh) : rec[x].kind = "header" /\ 10 \notin { rec[x].text[y] : y \in DOMAIN rec[x].text }
        /\ JoinCrLf([x \in 1..nh |-> rec[x + 2].text]) = headers
        /\ body # <<>> =>
              /\ rec[Len(rec) - 1] = Line("Body", "", 0, <<>>)
              /\ rec[Len(rec)] = Line("body", "", 0, body)

\* C27: under Http, a valid UTF-8 chunk with one of the five prefixes is recorded as
\* an HTTP message, split at its first CRLFCRLF into header lines and a body that is
\* left out when empty (and recorded as one text line when it has no CRLFCRLF); any
\* other chunk gets the record the Tcp rendering makes of it.
C27_HttpSplitOrTcp ==
    \A d \in Directions :
        (protocol = "Http" /\ chunk[d] # <<>>) =>
            LET data == chunk[d]
                rec  == lastLog[d]
            IN  IF ValidUtf8(data) /\ \E p \in ClaimedPrefixes : IsPrefix(p, data)
                THEN /\ \A e \in 0..Len(data) :
                           FirstAt(data, CrLfCrLf, e) =>
                               IsSplitRecord(rec, d, SubSeq(data, 1, e),
                                             SubSeq(data, e + 5, Len(data)))
                     /\ ~Occurs(data, CrLfCrLf) =>
                           rec = << Line("HTTP Message", d, 0, <<>>),
                                    Line("text", "", 0, data) >>
                ELSE rec = log_tcp_message(d, data)

\* Under Http the request chunk is "PUT \r\n\r\nb", recorded with one header line and
\* a body, and the response chunk is no UTF-8, recorded as Tcp.
C27_Witness ==
    /\ protocol = "Http"
    /\ chunk["request"] = <<80, 85, 84, 32, 13, 10, 13, 10, 98>>
    /\ lastLog["request"] = << Line("HTTP Message", "request", 0, <<>>),
                               Line("Headers", "", 0, <<>>),
                               Line("header", "", 0, <<80, 85, 84, 32>>),
                               Line("Body", "", 0, <<>>),
                               Line("body", "", 0, <<98>>) >>
    /\ chunk["response"] = <<255, 10>>
    /\ lastLog["response"][1].kind = "TCP Message"

\* C28: on each direction a chunk that is waiting to be written has its record made;
\* bytes are written only of a chunk whose record is made; and a read starts only at
\* the top of the loop, when everything read before has been written.
C28_LogThenWriteThenRead ==
    [][ \A d \in Directions :
            /\ (phase'[d] = "write" => lastLog'[d] = log_message(d, protocol', chunk'[d]))
            /\ (sent'[d] # sent[d] =>
                  phase[d] = "write" /\ lastLog[d] = log_message(d, protocol, chunk[d]))
            /\ (got'[d] # got[d] => phase[d] = "read" /\ sent[d] = got[d]) ]_vars

\* A second chunk of a direction is recorded and waits for its write, the first one
\* has been written.
C28_Witness ==
    \E d \in Directions :
        /\ conn = "relay" /\ phase[d] = "write"
        /\ sent[d] # <<>> /\ got[d] = sent[d] \o chunk[d]
        /\ lastLog[d] = log_message(d, protocol, chunk[d]) /\ lastLog[d] # <<>>

(***************************************************************************)
(* Properties of the k8s_port_forward plugin's run, checked under FwdSpec. *)
(***************************************************************************)
\* C31: an interrupt received while the spawned child runs sends the termination
\* signal to that child; run() returns only with no child running; while no child
\* was spawned no handler is installed and no signal is sent.
C31_InterruptSignalsChild ==
    /\ [][ (interrupts' # interrupts /\ child = "running") =>
              signals' = Append(signals, "child") ]_vars
    /\ [](fpc = "returned" => child # "running")
    /\ [](spawned = <<>> => (~handler /\ signals = <<>>))

\* The positions of the entries whose name is the filter.
ExactAt ==
    { k \in DOMAIN cfg.forward : name_filter # <<>> /\ cfg.forward[k].name = name_filter }

\* The positions of the entries whose labels have the filter somewhere in them.
LabelAt ==
    { k \in DOMAIN cfg.forward :
        /\ name_filter # <<>>
        /\ cfg.forward[k].labels # <<>>
        /\ LET labels == cfg.forward[k].labels[1]
               name == name_filter[1] IN
           \E a, b \in 0..Len(labels) :
               a <= b /\ b - a = Len(name) /\ \A x \in 1..Len(name) : labels[a + x] = name[x] }

\* The positions selected: all without a filter, else the exact ones, else the
\* label ones.
ChosenAt ==
    IF name_filter = <<>> THEN DOMAIN cfg.forward
    ELSE IF ExactAt # {} THEN ExactAt
    ELSE LabelAt

\* C34: the selected entries are those named exactly by the filter when there are
\* any, those whose labels contain it otherwise (all entries without a filter), in
\* config order; at most one port-forward child is spawned, for the first selected
\* entry, and none when nothing is selected or there is no config.
C34_ExactFirstOneChild ==
    /\ Len(spawned) <= 1
    /\ (cfg.ok /\ fpc \notin {"load_config", "killed"}) =>
          /\ Len(forwards) = Cardinality(ChosenAt)
          /\ \A k \in DOMAIN forwards :
                \E c \in ChosenAt :
                    /\ Cardinality({ b \in ChosenAt : b <= c }) = k
                    /\ forwards[k] = cfg.forward[c]
    /\ spawned # <<>> =>
          /\ ChosenAt # {}
          /\ spawned[1] = cfg.forward[CHOOSE c \in ChosenAt : \A b \in ChosenAt : c <= b]
    /\ (~cfg.ok \/ ChosenAt = {}) => (spawned = <<>> /\ child = "none")

\* --name a, the first entry has labels a=b and no name, the second is named a: the
\* child was spawned for the second.
C34_Witness ==
    /\ name_filter = << <<97>> >>
    /\ Len(cfg.forward) = 2
    /\ cfg.forward[1].name = <<>> /\ cfg.forward[1].labels = << <<97, 61, 98>> >>
    /\ cfg.forward[2].name = << <<97>> >>
    /\ Len(spawned) = 1 /\ spawned[1] = cfg.forward[2]
    /\ child = "running"
====
